---- MODULE Spec2Model ----
(***************************************************************************)
(* Model of the AI generation layer of amz_content_plugin:                 *)
(*   - UnifiedAIClient.generate      (src/unified_ai_client.py)            *)
(*   - AIContentGenerator retry loops and the two thread-pool batches      *)
(*     generate_all_content_parallel / generate_info_content_parallel      *)
(*     (src/ai_generator.py)                                               *)
(*   - CerebrasClient: construction, key rotation, generate                *)
(*     (src/cerebras_client.py)                                            *)
(*   - AIContentGenerator.classify_keyword (src/ai_generator.py) and       *)
(*     AmazonWPPoster.process_keywords_file (src/main.py)                  *)
(* Texts are sequences of one-character strings.                           *)
(***************************************************************************)
EXTENDS Integers, Sequences, FiniteSets, TLC

(* ------------------------------ bounds --------------------------------- *)
MaxTextLen == 2
MaxRequests == 3
MaxProducts == 2
MaxSections == 1
MaxKeys == 3
MaxInstances == 2
MaxCerebrasCalls == 2
MaxReplyLen == 3
MaxKeywords == 4
MaxJsonLen == 4
MaxIntroLen == 6
MaxTakeaways == 2

(* ------------------------- program constants --------------------------- *)
max_workers == 3
max_retries == 3
max_attempts == 3
batch_size == 2

VARIABLES
  callers,           \* threads that call UnifiedAIClient.generate
  chat_zai_healthy,  \* UnifiedAIClient.chat_zai_healthy
  stats,             \* UnifiedAIClient.stats
  rpc,               \* per caller: position inside generate
  entryHealthy,      \* per caller: value of the flag read at line 71
  response,          \* per caller: local variable `response`
  primOut,           \* per caller: what chat_zai.generate produced
  secOut,            \* per caller: "none", "text" or "raised" from cerebras.generate
  nPrim,             \* per caller: calls of chat_zai.generate in this request
  nSec,              \* per caller: calls of cerebras.generate in this request
  nRot,              \* per caller: calls of chat_zai.rotate_context
  rotOut,            \* per caller: "none", or what rotate_context returned: "rotated", "failed"
  probed,            \* per caller: set of results of the health probe of this request
  via                \* per caller: backend whose text is returned

VARIABLES
  mode,              \* "review": generate_all_content_parallel, "info": generate_info_content_parallel
  nItems,            \* len(products), resp. the number of sections the outline yields
  tasks,             \* local list `tasks` (fixed by the arguments, resp. the outline)
  bpc,               \* position of the thread that runs the batch operation
  frame,             \* per _generate_with_retry invocation: its loop state (0: main thread)
  submitted,         \* number of tasks handed to executor.submit
  processed,         \* futures already yielded by as_completed
  completed_count,   \* local variable completed_count
  results,           \* local dict `results`
  reviews_map,       \* local dict `reviews_map`
  sections_content,  \* local dict `sections_content`
  exc,               \* exception travelling up the main thread
  retval,            \* what the batch operation returned to its caller
  watched,           \* the invocation whose router calls are counted
  calls              \* number of client.generate calls made by the watched invocation

VARIABLES
  nKeys,             \* len(self.api_keys)
  keyBehav,          \* per key index: how the backend answers a request sent with it
  cache,             \* content of the cache file
  instances,         \* CerebrasClient objects constructed so far
  cachedAtInit,      \* content of the cache file when the latest constructor began
  key_index,         \* CerebrasClient.key_index
  failed_keys,       \* CerebrasClient.failed_keys
  real_client,       \* key index CerebrasClient._real_client was built with (NoClient: not set)
  cthreads,          \* threads that call CerebrasClient.generate
  cpc,               \* per thread: position inside generate
  stream,            \* per thread: the argument `stream`
  attempts,          \* per thread: local variable `attempts`
  reqKey,            \* per thread: key index the request in flight was sent with
  nReq,              \* per thread: requests sent to the backend in this call
  failedInCall,      \* per thread: key indexes this call added to failed_keys
  cOut,              \* per thread: what generate returned (Raised: it raised)
  cCalls             \* generate calls begun on this client

cerebrasVars == <<nKeys, keyBehav, cache, instances, cachedAtInit, key_index, failed_keys,
                  real_client, cthreads, cpc, stream, attempts, reqKey, nReq, failedInCall,
                  cOut, cCalls>>

VARIABLES
  reply,             \* what the backend hands back for the classification prompt
  classification,    \* the type classify_keyword returned ("raised": it raised)
  clpc,              \* position of the caller of classify_keyword
  wp_ok,             \* result of wordpress.test_connection()
  nKeywords,         \* len(keywords)
  limit,             \* the argument `limit` (0: None)
  kpc,               \* position inside process_keywords_file
  kidx,              \* loop variable idx
  intent,            \* local variable intent of the current keyword
  intents,           \* the intents of the keywords classified so far, in order
  consecutive_failures, \* local variable consecutive_failures
  kresults,          \* local list results: the 'success' field of each entry
  remaining,         \* remaining_keywords
  invoked,           \* <<keyword, operation>> for every collaborator call made
  halted             \* the loop was left by the break of line 391

classifyVars == <<reply, classification, clpc>>

VARIABLES
  callee,            \* the function of AIContentGenerator / HTMLBuilder that is called
  args,              \* the arguments of the call, and what the backend answers during it
  result,            \* what the call returned (Raised: it raised)
  fpc                \* position of the caller: "called", "returned"

callVars == <<callee, args, result, fpc>>

keywordVars == <<wp_ok, nKeywords, limit, kpc, kidx, intent, intents, consecutive_failures,
                 kresults, remaining, invoked, halted>>

batchVars == <<mode, nItems, tasks, bpc, frame, submitted, processed, completed_count,
               results, reviews_map, sections_content, exc, retval,
               watched, calls>>

routerVars == <<callers, chat_zai_healthy, stats, rpc, entryHealthy, response,
                primOut, secOut, nPrim, nSec, nRot, rotOut, probed, via>>

VARIABLES
  flagWin,           \* per caller: its window on the flag, from its read at line 71 to its
                     \* own next write, and the callers that touched the flag meanwhile
  acc,               \* per caller: <<variable, "r" or "w">> for the shared variables its
                     \* current call has read or written
  lastBump,          \* the caller that took the latest step, and the counter of
                     \* self.stats that step incremented ("none": it incremented none)
  begun              \* generate calls begun on the router

obsVars == <<flagWin, acc, lastBump, begun>>

(* ------------------------------- texts --------------------------------- *)
Chars == {" ", "{", "}", "[", "]", "a"}

RECURSIVE SeqsUpTo(_, _)
SeqsUpTo(S, n) ==
  IF n = 0 THEN {<<>>}
  ELSE LET shorter == SeqsUpTo(S, n - 1)
       IN  shorter \cup {Append(s, c) : s \in {x \in shorter : Len(x) = n - 1}, c \in S}

Texts == SeqsUpTo(Chars, MaxTextLen)

Raised == <<"EXC">>    \* the call ended with an exception
NoText == <<"NONE">>   \* no value yet

\* str.strip(): drop leading and trailing whitespace
RECURSIVE LStrip(_)
LStrip(s) == IF s # <<>> /\ Head(s) = " " THEN LStrip(Tail(s)) ELSE s

RECURSIVE RStrip(_)
RStrip(s) == IF s # <<>> /\ s[Len(s)] = " " THEN RStrip(SubSeq(s, 1, Len(s) - 1)) ELSE s

Strip(s) == RStrip(LStrip(s))

StartsWith(s, c) == s # <<>> /\ Head(s) = c
EndsWith(s, c) == s # <<>> /\ s[Len(s)] = c

\* the check of chat_zai_client.py line 112 used in its place: braces only
IncompleteJSON_braceOnly(text) ==
  LET response_stripped == Strip(text)
  IN  StartsWith(response_stripped, "{") /\ ~EndsWith(response_stripped, "}")

\* unified_ai_client.py lines 82-90: the completeness check of a primary text
IncompleteJSON(text) ==
  LET response_stripped == Strip(text)
  IN  \/ StartsWith(response_stripped, "{") /\ ~EndsWith(response_stripped, "}")
      \/ StartsWith(response_stripped, "[") /\ ~EndsWith(response_stripped, "]")

(* ------------------------- UnifiedAIClient ----------------------------- *)
Bump(field) == [stats EXCEPT ![field] = @ + 1]

\* self.stats[field] += 1 by caller t (lines 68, 92, 112, 135 and 149) loads
\* the entry, adds 1 and stores it, and no lock is held. When another caller
\* increments the same entry at the same time, both may load the same value,
\* and one of the two increments is lost
Count(t, field) ==
  \E lost \in BOOLEAN :
    /\ lost => (lastBump.by \in callers \ {t} /\ lastBump.field = field)
    /\ stats' = IF lost THEN stats ELSE Bump(field)

\* __init__: counters at zero, the flag holds the result of the first probe
RouterInit(cs) ==
  /\ callers = cs
  /\ chat_zai_healthy \in BOOLEAN
  /\ stats = [total_requests |-> 0, chat_zai_success |-> 0, chat_zai_failed |-> 0,
              cerebras_success |-> 0, cerebras_failed |-> 0]
  /\ rpc = [t \in cs |-> "idle"]
  /\ entryHealthy = [t \in cs |-> FALSE]
  /\ response = [t \in cs |-> NoText]
  /\ primOut = [t \in cs |-> NoText]
  /\ secOut = [t \in cs |-> "none"]
  /\ nPrim = [t \in cs |-> 0]
  /\ nSec = [t \in cs |-> 0]
  /\ nRot = [t \in cs |-> 0]
  /\ rotOut = [t \in cs |-> "none"]
  /\ probed = [t \in cs |-> {}]
  /\ via = [t \in cs |-> "none"]

\* a router that always tries the primary first
Route_always(healthy) == "zai"

\* lines 71 and 116: primary if the flag is set, else straight to the secondary
Route(healthy) == IF healthy THEN "zai" ELSE "cerebras"

\* generate, lines 68-71 and 116-117: count the request, read the flag, route
GenerateEnter(t) ==
  /\ rpc[t] \in {"idle", "returned", "raised"}
  /\ stats.total_requests < MaxRequests
  /\ Count(t, "total_requests")
  /\ entryHealthy' = [entryHealthy EXCEPT ![t] = chat_zai_healthy]
  /\ rpc' = [rpc EXCEPT ![t] = Route(chat_zai_healthy)]
  /\ response' = [response EXCEPT ![t] = NoText]
  /\ primOut' = [primOut EXCEPT ![t] = NoText]
  /\ secOut' = [secOut EXCEPT ![t] = "none"]
  /\ nPrim' = [nPrim EXCEPT ![t] = 0]
  /\ nSec' = [nSec EXCEPT ![t] = 0]
  /\ nRot' = [nRot EXCEPT ![t] = 0]
  /\ rotOut' = [rotOut EXCEPT ![t] = "none"]
  /\ probed' = [probed EXCEPT ![t] = {}]
  /\ via' = [via EXCEPT ![t] = "none"]
  /\ UNCHANGED <<callers, chat_zai_healthy>>

\* an except branch that forgets line 114
PrimaryFailed_keepFlag(t) ==
  /\ Count(t, "chat_zai_failed")
  /\ rpc' = [rpc EXCEPT ![t] = "cerebras"]
  /\ UNCHANGED <<response, chat_zai_healthy>>

\* lines 110-115: the except branch of the primary attempt
PrimaryFailed(t) ==
  /\ Count(t, "chat_zai_failed")
  /\ chat_zai_healthy' = FALSE
  /\ rpc' = [rpc EXCEPT ![t] = "cerebras"]
  /\ UNCHANGED response

\* a success branch that falls through to the fallback
PrimaryAccepted_fallthrough(t, r) ==
  /\ Count(t, "chat_zai_success")
  /\ response' = [response EXCEPT ![t] = r]
  /\ rpc' = [rpc EXCEPT ![t] = "cerebras"]
  /\ UNCHANGED chat_zai_healthy

\* a success branch that marks the primary healthy
PrimaryAccepted_marksHealthy(t, r) ==
  /\ Count(t, "chat_zai_success")
  /\ response' = [response EXCEPT ![t] = r]
  /\ rpc' = [rpc EXCEPT ![t] = "rotate"]
  /\ chat_zai_healthy' = TRUE

\* lines 92-93: the primary text is accepted
PrimaryAccepted(t, r) ==
  /\ Count(t, "chat_zai_success")
  /\ response' = [response EXCEPT ![t] = r]
  /\ rpc' = [rpc EXCEPT ![t] = "rotate"]
  /\ UNCHANGED chat_zai_healthy

\* lines 72-115: chat_zai.generate answers r (a text, or an exception)
ZaiRespond(t) ==
  /\ rpc[t] = "zai"
  /\ \E r \in Texts \cup {Raised} :
       /\ primOut' = [primOut EXCEPT ![t] = r]
       /\ nPrim' = [nPrim EXCEPT ![t] = @ + 1]
       /\ IF r = Raised \/ IncompleteJSON(r)
            THEN PrimaryFailed(t)
            ELSE PrimaryAccepted(t, r)
  /\ UNCHANGED <<callers, entryHealthy, secOut, nSec, nRot, rotOut, probed, via>>

\* what the POST /rotate of chat_zai_client.py line 54 can do
RotateOutcomes == {"200", "500", "exception"}

\* ChatZaiClient.rotate_context: True on status 200, False on any other status
\* and on any exception; it never raises
rotate_context(o) == o = "200"

\* a router that treats a failed rotation as a failure of the primary
AfterRotation_failover(t, rotate_success) ==
  IF rotate_success
    THEN /\ via' = [via EXCEPT ![t] = "primary"]
         /\ rpc' = [rpc EXCEPT ![t] = "returned"]
         /\ UNCHANGED <<chat_zai_healthy, response>>
    ELSE /\ chat_zai_healthy' = FALSE
         /\ rpc' = [rpc EXCEPT ![t] = "cerebras"]
         /\ UNCHANGED <<via, response>>

\* lines 99-108: the result of the rotation is only logged; sleep, return response
AfterRotation(t, rotate_success) ==
  /\ via' = [via EXCEPT ![t] = "primary"]
  /\ rpc' = [rpc EXCEPT ![t] = "returned"]
  /\ UNCHANGED <<chat_zai_healthy, response>>

\* lines 95-108: rotate the context, sleep, return
RotateAndReturn(t) ==
  /\ rpc[t] = "rotate"
  /\ \E o \in RotateOutcomes :
       LET rotate_success == rotate_context(o)
       IN  /\ nRot' = [nRot EXCEPT ![t] = @ + 1]
           /\ rotOut' = [rotOut EXCEPT ![t] = IF rotate_success THEN "rotated" ELSE "failed"]
           /\ AfterRotation(t, rotate_success)
  /\ UNCHANGED <<callers, stats, entryHealthy, primOut, secOut, nPrim, nSec, probed>>

\* lines 119-140 and 147-150: cerebras.generate answers r
CerebrasRespond(t) ==
  /\ rpc[t] = "cerebras"
  /\ \E r \in Texts \cup {Raised} :
       /\ nSec' = [nSec EXCEPT ![t] = @ + 1]
       /\ secOut' = [secOut EXCEPT ![t] = IF r = Raised THEN "raised" ELSE "text"]
       /\ IF r = Raised
            THEN /\ Count(t, "cerebras_failed")
                 /\ rpc' = [rpc EXCEPT ![t] = "raised"]
                 /\ UNCHANGED response
            ELSE /\ Count(t, "cerebras_success")
                 /\ response' = [response EXCEPT ![t] = r]
                 /\ rpc' = [rpc EXCEPT ![t] = "probe"]
  /\ UNCHANGED <<callers, chat_zai_healthy, entryHealthy, primOut, nPrim, nRot,
                 rotOut, probed, via>>

\* a probe whose result is dropped
ProbeWrite_dropped(h) == UNCHANGED chat_zai_healthy

\* line 143: the flag takes the result of chat_zai.health_check()
ProbeWrite(h) == chat_zai_healthy' = h

\* lines 142-145: probe the primary, store the result, return the text
ProbeAndReturn(t) ==
  /\ rpc[t] = "probe"
  /\ \E h \in BOOLEAN :
       /\ probed' = [probed EXCEPT ![t] = {h}]
       /\ ProbeWrite(h)
  /\ via' = [via EXCEPT ![t] = "secondary"]
  /\ rpc' = [rpc EXCEPT ![t] = "returned"]
  /\ UNCHANGED <<callers, stats, entryHealthy, response, primOut, secOut, nPrim,
                 nSec, nRot, rotOut>>

RouterStep(t) ==
  \/ GenerateEnter(t)
  \/ ZaiRespond(t)
  \/ RotateAndReturn(t)
  \/ CerebrasRespond(t)
  \/ ProbeAndReturn(t)

(* ------------- the accesses of generate to shared variables ------------ *)
InCall(t) == rpc[t] \in {"zai", "rotate", "cerebras", "probe"}

\* the access to self.chat_zai_healthy made by the step caller t takes:
\* the read of line 71, the write of line 114, the write of line 143
FlagAccess(t) ==
  CASE ~InCall(t) -> "r"
    [] rpc[t] = "zai" /\ rpc'[t] = "cerebras" -> "w"
    [] rpc[t] = "probe" -> "w"
    [] OTHER -> "none"

\* the accesses to self.stats made by that step: `+= 1` at lines 68, 93, 111,
\* 135 and 148 reads and writes the dict entry
StatsAccess(t) ==
  IF ~InCall(t) \/ rpc[t] \in {"zai", "cerebras"}
    THEN {<<"stats", "r">>, <<"stats", "w">>}
    ELSE {}

Accesses(t) ==
  StatsAccess(t) \cup (IF FlagAccess(t) = "none" THEN {}
                       ELSE {<<"chat_zai_healthy", FlagAccess(t)>>})

NoWindow == [open |-> FALSE, wrote |-> FALSE, others |-> {}]

\* the counter of self.stats that the step caller t takes increments
BumpedField(t) ==
  CASE ~InCall(t) -> "total_requests"
    [] rpc[t] = "zai" /\ rpc'[t] = "rotate" -> "chat_zai_success"
    [] rpc[t] = "zai" -> "chat_zai_failed"
    [] rpc[t] = "cerebras" /\ rpc'[t] = "raised" -> "cerebras_failed"
    [] rpc[t] = "cerebras" -> "cerebras_success"
    [] OTHER -> "none"

ObsInit(cs) ==
  /\ flagWin = [t \in cs |-> NoWindow]
  /\ acc = [t \in cs |-> {}]
  /\ lastBump = [by |-> 0, field |-> "none"]
  /\ begun = 0

\* bookkeeping for the step caller t takes
Observe(t) ==
  /\ acc' = [acc EXCEPT ![t] = IF InCall(t) THEN @ \cup Accesses(t) ELSE Accesses(t)]
  /\ lastBump' = IF BumpedField(t) = "none"
                    THEN [by |-> 0, field |-> "none"]
                    ELSE [by |-> t, field |-> BumpedField(t)]
  /\ begun' = IF InCall(t) THEN begun ELSE begun + 1
  /\ begun' <= MaxRequests
  /\ flagWin' =
       [u \in callers |->
          IF u = t
            THEN CASE FlagAccess(t) = "r" -> [open |-> TRUE, wrote |-> FALSE, others |-> {}]
                   [] FlagAccess(t) = "w" /\ flagWin[t].open ->
                        [flagWin[t] EXCEPT !.open = FALSE, !.wrote = TRUE]
                   [] OTHER -> IF rpc'[t] \in {"returned", "raised"}
                                 THEN [flagWin[t] EXCEPT !.open = FALSE]
                                 ELSE flagWin[t]
            ELSE IF FlagAccess(t) # "none" /\ flagWin[u].open
                   THEN [flagWin[u] EXCEPT !.others = @ \cup {t}]
                   ELSE flagWin[u]]

(* ------------------- AIContentGenerator: the tasks --------------------- *)
NoErr == [attempt |-> 0, msg |-> "none"]
NoRes == [tag |-> "none", map |-> <<>>, at |-> 0]
NewFrame == [st |-> "new", attempt |-> 0, last_error |-> NoErr, res |-> NoRes,
             err |-> NoErr, hist |-> <<>>, fails |-> 0]

\* what one client.generate call followed by extraction, json.loads and the
\* validation of the task can end in
Outcomes == {"ok", "transport", "decode", "invalid"}

\* what the successive calls of one function invocation end in; calls after
\* the first success are never made
Scripts == {s \in [1..max_attempts -> Outcomes] :
              \A a \in 1..max_attempts, b \in 1..max_attempts :
                 (a < b /\ s[a] = "ok") => s[b] = "ok"}

\* the key sets a backend answer for a review batch may have: the products of
\* the batch, every product of the article, or none
KeySets(products) == {products, 1..nItems, {}}

\* lines 969-973: products are split into batches of two
NumBatches == (nItems + batch_size - 1) \div batch_size
BatchProducts(k) == {a \in 1..nItems : (k - 1) * batch_size < a /\ a <= k * batch_size}

Task(name, idx) == [name |-> name, idx |-> idx]

\* lines 978-986 and 1459-1467: the list `tasks`
TaskList ==
  IF mode = "review"
    THEN <<Task("badges", 0), Task("guide", 0), Task("faqs", 0)>>
           \o [k \in 1..NumBatches |-> Task("review_batch", k)]
    ELSE <<Task("intro", 0), Task("faqs", 0), Task("conclusion", 0)>>
           \o [k \in 1..nItems |-> Task("section", k)]

N == Len(tasks)

\* a function's way out: calls counts its client.generate calls, fails those
\* of them that ended in an error
Ok(tag, map, n) == [status |-> "ok", res |-> [tag |-> tag, map |-> map, at |-> 0],
                    msg |-> "none", calls |-> n, fails |-> IF n > 0 THEN n - 1 ELSE 0]
Raise(msg, n) == [status |-> "raised", res |-> NoRes, msg |-> msg, calls |-> n, fails |-> n]
WithFails(r, f) == [r EXCEPT !.fails = f]

\* lines 466-480: the two except branches of the attempt loops
ErrMsg(o) == IF o = "decode" THEN "JSON parse error" ELSE "Generation error"

\* the `for attempt in range(max_attempts)` loops of generate_badges,
\* generate_buying_guide, generate_faqs and generate_product_reviews_batch:
\* script[a] is what the a-th attempt ends in
RECURSIVE AttemptLoop(_, _, _)
AttemptLoop(script, a, last) ==
  IF a > max_attempts THEN [status |-> "exhausted", msg |-> last, calls |-> max_attempts]
  ELSE IF script[a] = "ok" THEN [status |-> "ok", msg |-> last, calls |-> a]
  ELSE AttemptLoop(script, a + 1, ErrMsg(script[a]))

generate_badges(script) ==
  LET r == AttemptLoop(script, 1, "none")
  IN  IF r.status = "ok" THEN Ok("data", <<>>, r.calls) ELSE Raise(r.msg, r.calls)

generate_buying_guide(script) ==
  LET r == AttemptLoop(script, 1, "none")
  IN  IF r.status = "ok" THEN Ok("data", <<>>, r.calls) ELSE Raise(r.msg, r.calls)

generate_faqs(script) ==
  LET r == AttemptLoop(script, 1, "none")
  IN  IF r.status = "ok" THEN Ok("data", <<>>, r.calls) ELSE Raise(r.msg, r.calls)

\* a review as the backend wrote it, and the template of lines 778-782
GeneratedReview == [description |-> <<"generated", 0>>, pros |-> <<"pro">>, cons |-> <<"con">>]
FallbackReview(asin) ==
  [description |-> <<"This product offers", asin>>,
   pros |-> <<"Quality build", "Good features", "Reliable performance">>,
   cons |-> <<"Price may vary", "Limited availability">>]

\* a fallback that covers the first product only
FallbackReviews_firstOnly(products) ==
  [a \in {p \in products : \A q \in products : p <= q} |-> FallbackReview(a)]

\* lines 774-783: one templated review per product of the batch
FallbackReviews(products) == [a \in products |-> FallbackReview(a)]

\* lines 677-783; keys are the keys of the object the backend returned
generate_product_reviews_batch(products, script, keys) ==
  IF products = {} THEN Ok("reviews", <<>>, 0)
  ELSE LET r == AttemptLoop(script, 1, "none")
       IN  IF r.status = "ok"
             THEN Ok("reviews", [a \in keys |-> GeneratedReview], r.calls)
             ELSE WithFails(Ok("reviews", FallbackReviews(products), r.calls), r.calls)

\* lines 345-381: one call, the exception is re-raised
generate_intro(o) == IF o = "transport" THEN Raise("transport", 1) ELSE Ok("data", <<>>, 1)

\* lines 1287-1299 and 1400-1412: one call, nothing is caught
generate_info_intro(o) == IF o = "transport" THEN Raise("transport", 1) ELSE Ok("data", <<>>, 1)
generate_info_conclusion(o) == IF o = "transport" THEN Raise("transport", 1) ELSE Ok("data", <<>>, 1)

\* lines 1532-1548: one call, decode and the list check raise
generate_json_content(o) == IF o = "ok" THEN Ok("data", <<>>, 1) ELSE Raise(o, 1)

\* _generate_with_retry (lines 198-213) as called from inside a task function
RECURSIVE RetryLoop(_, _, _)
RetryLoop(script, attempt, last_error) ==
  IF attempt > max_retries THEN Raise(last_error, max_retries)
  ELSE LET r == generate_json_content(script[attempt])
       IN  IF r.status = "ok" THEN Ok("data", <<>>, attempt)
           ELSE RetryLoop(script, attempt + 1, r.msg)

\* lines 1379-1387
generate_info_faqs(script) == RetryLoop(script, 1, "none")

\* lines 1344-1361: the loop over subpoints raises on an item without 'content'
generate_info_section_content(script, wellformed) ==
  LET r == RetryLoop(script, 1, "none")
  IN  IF r.status = "ok" /\ ~wellformed
        THEN WithFails(Raise("KeyError", r.calls), r.fails)
        ELSE r

\* lines 886-927: the lines before the try block may raise on odd badge or
\* review data; inside it every failure yields the three stock takeaways
generate_key_takeaways(o, wellformed) ==
  IF ~wellformed THEN Raise("TypeError", 0)
  ELSE IF o = "ok" THEN Ok("data", <<>>, 1) ELSE WithFails(Ok("stock", <<>>, 1), 1)

\* the inputs of one call of the function run by invocation i
Input(script, keys, flag) == [script |-> script, keys |-> keys, flag |-> flag]

OneCall(outs) == {Input([a \in 1..max_attempts |-> o], {}, TRUE) : o \in outs}

FuncName(i) ==
  IF i = 0 THEN (IF bpc = "intro" THEN "generate_intro"
                 ELSE IF bpc = "outline" THEN "_generate_json_content"
                 ELSE "generate_key_takeaways")
  ELSE LET name == tasks[i].name
       IN  IF mode = "review"
             THEN (CASE name = "badges" -> "generate_badges"
                     [] name = "guide" -> "generate_buying_guide"
                     [] name = "faqs" -> "generate_faqs"
                     [] OTHER -> "generate_product_reviews_batch")
             ELSE (CASE name = "intro" -> "generate_info_intro"
                     [] name = "faqs" -> "generate_info_faqs"
                     [] name = "conclusion" -> "generate_info_conclusion"
                     [] OTHER -> "generate_info_section_content")

Inputs(i) ==
  LET f == FuncName(i)
  IN  CASE f \in {"generate_intro", "generate_info_intro", "generate_info_conclusion"} ->
             OneCall({"ok", "transport"})
        [] f = "_generate_json_content" -> OneCall(Outcomes)
        [] f = "generate_key_takeaways" ->
             {Input(s.script, {}, w) : s \in OneCall(Outcomes), w \in BOOLEAN}
        [] f = "generate_product_reviews_batch" ->
             {Input(s, k, TRUE) : s \in Scripts, k \in KeySets(BatchProducts(tasks[i].idx))}
        [] f = "generate_info_section_content" ->
             {Input(s, {}, w) : s \in Scripts, w \in BOOLEAN}
        [] OTHER -> {Input(s, {}, TRUE) : s \in Scripts}

\* func(*args, **kwargs) of line 202
CallFunc(i, inp) ==
  LET f == FuncName(i)
  IN  CASE f = "generate_intro" -> generate_intro(inp.script[1])
        [] f = "generate_info_intro" -> generate_info_intro(inp.script[1])
        [] f = "generate_info_conclusion" -> generate_info_conclusion(inp.script[1])
        [] f = "_generate_json_content" -> generate_json_content(inp.script[1])
        [] f = "generate_key_takeaways" -> generate_key_takeaways(inp.script[1], inp.flag)
        [] f = "generate_badges" -> generate_badges(inp.script)
        [] f = "generate_buying_guide" -> generate_buying_guide(inp.script)
        [] f = "generate_faqs" -> generate_faqs(inp.script)
        [] f = "generate_product_reviews_batch" ->
             generate_product_reviews_batch(BatchProducts(tasks[i].idx), inp.script, inp.keys)
        [] f = "generate_info_faqs" -> generate_info_faqs(inp.script)
        [] OTHER -> generate_info_section_content(inp.script, inp.flag)

(* ---------------------- _generate_with_retry --------------------------- *)
\* a loop that remembers the first error instead of the last
RecordError_first(old, new) == IF old = NoErr THEN new ELSE old

\* line 207: last_error = e
RecordError(old, new) == new

\* a loop that goes round once more
MoreAttempts_extra(attempt) == attempt < max_retries + 1

\* line 199: for attempt in range(1, self.max_retries + 1)
MoreAttempts(attempt) == attempt < max_retries

\* a loop that does not stop at the first result
ReturnResult_continue(fr, a, res) ==
  IF a < max_retries
    THEN [fr EXCEPT !.attempt = a, !.hist = Append(@, "ok")]
    ELSE [fr EXCEPT !.st = "ok", !.attempt = a, !.res = [res EXCEPT !.at = a],
                    !.hist = Append(@, "ok")]

\* lines 202-205: return result
ReturnResult(fr, a, res) ==
  [fr EXCEPT !.st = "ok", !.attempt = a, !.res = [res EXCEPT !.at = a],
             !.hist = Append(@, "ok")]

\* lines 206-213: remember the error; after the last attempt raise with it
HandleError(fr, a, msg) ==
  LET e == RecordError(fr.last_error, [attempt |-> a, msg |-> msg])
  IN  IF MoreAttempts(a)
        THEN [fr EXCEPT !.attempt = a, !.last_error = e, !.hist = Append(@, "raise")]
        ELSE [fr EXCEPT !.st = "failed", !.attempt = a, !.last_error = e, !.err = e,
                        !.hist = Append(@, "raise")]

\* every result func(*args) can have for invocation i
FuncResults(i) == {CallFunc(i, inp) : inp \in Inputs(i)}

\* lines 199-213: one iteration of the loop, func ending in r
RetryIter(fr, r) ==
  LET next == IF r.status = "ok" THEN ReturnResult(fr, fr.attempt + 1, r.res)
              ELSE HandleError(fr, fr.attempt + 1, r.msg)
  IN  [next EXCEPT !.fails = r.fails]

\* lines 199-213: invocation i makes its next attempt
RetryAttempt(i) ==
  /\ frame[i].st = "running"
  /\ \E r \in FuncResults(i) :
       /\ frame' = [frame EXCEPT ![i] = RetryIter(@, r)]
       /\ calls' = IF watched = i THEN calls + r.calls ELSE calls

\* lines 198-213: every way the loop can end from state fr, func having the
\* results rs
RECURSIVE RetryEnds(_, _)
RetryEnds(fr, rs) ==
  IF fr.st # "running" THEN {fr}
  ELSE UNION {RetryEnds(next, rs) : next \in {RetryIter(fr, r) : r \in rs}}

(* ------------------ the thread pool and the collector ------------------ *)
Put(d, k, v) == [x \in (DOMAIN d) \cup {k} |-> IF x = k THEN v ELSE d[x]]

\* dict.update of line 1023
Update(d, m) == [x \in (DOMAIN d) \cup (DOMAIN m) |-> IF x \in DOMAIN m THEN m[x] ELSE d[x]]

Running == {i \in 1..N : frame[i].st = "running"}
Queued == {i \in 1..N : frame[i].st = "queued"}
Finished(i) == frame[i].st \in {"ok", "failed"}

\* a pool that starts a thread for every work item
WorkerFree_unbounded == TRUE

\* ThreadPoolExecutor(max_workers=3), lines 994 and 1476
WorkerFree == Cardinality(Running) < max_workers

\* an exit that does not join the workers
PoolJoined_nowait == TRUE

\* leaving the `with` block: Executor.__exit__ calls shutdown(wait=True)
PoolJoined == \A i \in 1..N : Finished(i)

\* what is left of a run of _generate_with_retry once the call is over (for a
\* task, what its Future keeps): its result or its
\* exception; the locals of the loop are gone
FutureOf(end) ==
  [NewFrame EXCEPT !.st = end.st, !.res = [end.res EXCEPT !.at = 0], !.err = end.err]

\* the arguments: the operation and the number of products (sections)
BatchArgs ==
  /\ mode \in {"review", "info"}
  /\ nItems \in (IF mode = "review" THEN 1..MaxProducts ELSE 0..MaxSections)
  /\ tasks = TaskList

\* local state at the entry of the batch operation
BatchLocals ==
  /\ submitted = 0
  /\ processed = {}
  /\ completed_count = 0
  /\ results = <<>>
  /\ reviews_map = <<>>
  /\ sections_content = <<>>
  /\ exc = NoErr
  /\ retval = {}
  /\ calls = 0

\* lines 959-965 (intro first) and 1448-1456 (outline first)
FirstStep ==
  /\ bpc \in {"intro", "outline"}
  /\ frame[0].st = "running"
  /\ \E r \in FuncResults(0) :
       LET next == RetryIter(frame[0], r)
       IN  /\ frame' = [frame EXCEPT ![0] = IF next.st = "running" THEN next
                                             ELSE FutureOf(next)]
           /\ calls' = IF watched = 0 THEN calls + r.calls ELSE calls
  /\ \E wellformed \in BOOLEAN :
       CASE frame'[0].st = "running" ->
              /\ wellformed
              /\ UNCHANGED <<bpc, results, exc>>
         [] frame'[0].st = "failed" ->
              /\ wellformed
              /\ bpc' = "raised"
              /\ exc' = frame'[0].err
              /\ UNCHANGED results
         [] OTHER ->
              IF bpc = "intro"
                THEN /\ wellformed
                     /\ results' = Put(results, "intro", frame'[0].res)
                     /\ bpc' = "submit"
                     /\ UNCHANGED exc
                ELSE \* line 1225: sec['h2'] raises on a section without that key
                     /\ (wellformed \/ nItems > 0)
                     /\ bpc' = (IF wellformed THEN "submit" ELSE "raised")
                     /\ exc' = (IF wellformed THEN NoErr ELSE [attempt |-> 0, msg |-> "KeyError"])
                     /\ UNCHANGED results
  /\ UNCHANGED <<mode, nItems, tasks, submitted, processed, completed_count, reviews_map,
                 sections_content, retval, watched>>

\* lines 997-1000 and 1479-1482: executor.submit of the next task
Submit ==
  /\ bpc = "submit"
  /\ frame' = [frame EXCEPT ![submitted + 1].st = "queued"]
  /\ submitted' = submitted + 1
  /\ bpc' = (IF submitted + 1 = N THEN "collect" ELSE "submit")
  /\ UNCHANGED <<mode, nItems, tasks, processed, completed_count, results, reviews_map,
                 sections_content, exc, retval, watched, calls>>

\* a pool worker takes the oldest queued work item
StartTask(i) ==
  /\ i \in Queued
  /\ \A j \in Queued : i <= j
  /\ WorkerFree
  /\ frame' = [frame EXCEPT ![i].st = "running"]
  /\ UNCHANGED <<mode, nItems, tasks, bpc, submitted, processed, completed_count, results,
                 reviews_map, sections_content, exc, retval, watched, calls>>

\* line 998: a pool worker runs _generate_with_retry(func, *args) to its end
TaskRun(i) ==
  /\ i \in Running
  /\ \E end \in RetryEnds(frame[i], FuncResults(i)) : frame' = [frame EXCEPT ![i] = FutureOf(end)]
  /\ UNCHANGED <<mode, nItems, tasks, bpc, submitted, processed, completed_count, results,
                 reviews_map, sections_content, exc, retval, watched, calls>>

\* the same run, one attempt at a time
TaskAttempt(i) ==
  /\ i \in 1..N
  /\ RetryAttempt(i)
  /\ UNCHANGED <<mode, nItems, tasks, bpc, submitted, processed, completed_count, results,
                 reviews_map, sections_content, exc, retval, watched>>

\* an except branch that only logs
Reraise_swallowed(e) == NoErr

\* lines 1032-1034 and 1514-1516: `raise` hands the task's exception on
Reraise(e) == e

\* a collector that files every result under 'badges'
StoreResult_misfiled(d, name, res) == Put(d, "badges", res)

\* lines 1016-1021 and 1497-1502: results[name] = result
StoreResult(d, name, res) == Put(d, name, res)

\* lines 1008-1034 and 1489-1516: as_completed yields future i, one loop body
Collect(i) ==
  /\ bpc = "collect"
  /\ i \in 1..N
  /\ i \notin processed
  /\ Finished(i)
  /\ processed' = processed \cup {i}
  /\ completed_count' = completed_count + 1
  /\ IF frame[i].st = "ok"
       THEN LET name == tasks[i].name
                res == frame[i].res
                rm == IF name = "review_batch" THEN Update(reviews_map, res.map)
                      ELSE reviews_map
                stored == IF name \in {"review_batch", "section"} THEN results
                          ELSE StoreResult(results, name, res)
            IN  /\ reviews_map' = rm
                /\ sections_content' = IF name = "section"
                                         THEN Put(sections_content, tasks[i].idx, res)
                                         ELSE sections_content
                /\ IF completed_count + 1 < N
                     THEN /\ bpc' = "sleep"
                          /\ results' = stored
                     ELSE \* the loop is over; line 1036
                          /\ bpc' = "exit_wait"
                          /\ results' = IF mode = "review"
                                          THEN Put(stored, "reviews",
                                                   [tag |-> "reviews", map |-> rm, at |-> 0])
                                          ELSE stored
                /\ UNCHANGED exc
       ELSE \* future.result() raises, lines 1032-1034
            /\ exc' = Reraise(frame[i].err)
            /\ bpc' = "exit_wait"
            /\ UNCHANGED <<results, reviews_map, sections_content>>
  /\ UNCHANGED <<mode, nItems, tasks, frame, submitted, retval, watched, calls>>

\* lines 1028-1030 and 1510-1512: time.sleep(1) is over
SleepDone ==
  /\ bpc = "sleep"
  /\ bpc' = "collect"
  /\ UNCHANGED <<mode, nItems, tasks, frame, submitted, processed, completed_count, results,
                 reviews_map, sections_content, exc, retval, watched, calls>>

\* the end of the `with` block, then lines 1038 resp. 1519-1530
ExecutorExit ==
  /\ bpc = "exit_wait"
  /\ PoolJoined
  /\ IF exc # NoErr
       THEN /\ bpc' = "raised"
            /\ UNCHANGED <<frame, results, retval, calls>>
       ELSE IF mode = "review"
         THEN /\ bpc' = "takeaways"
              /\ frame' = [frame EXCEPT ![0] = [NewFrame EXCEPT !.st = "running"]]
              /\ calls' = IF watched = 0 THEN 0 ELSE calls
              /\ UNCHANGED <<results, retval>>
         ELSE /\ bpc' = "returned"
              /\ results' = Put(results, "sections",
                                [tag |-> "sections", map |-> sections_content, at |-> 0])
              /\ retval' = {results'}
              /\ UNCHANGED <<frame, calls>>
  /\ UNCHANGED <<mode, nItems, tasks, submitted, processed, completed_count, reviews_map,
                 sections_content, exc, watched>>

\* lines 1038-1052: takeaways, an error leaves an empty list; return results
Takeaways ==
  /\ bpc = "takeaways"
  /\ RetryAttempt(0)
  /\ CASE frame'[0].st = "running" -> UNCHANGED <<bpc, results, retval>>
       [] frame'[0].st = "ok" ->
            /\ results' = Put(results, "takeaways", frame'[0].res)
            /\ retval' = {results'}
            /\ bpc' = "returned"
       [] OTHER ->
            /\ results' = Put(results, "takeaways", [tag |-> "empty", map |-> <<>>, at |-> 0])
            /\ retval' = {results'}
            /\ bpc' = "returned"
  /\ UNCHANGED <<mode, nItems, tasks, submitted, processed, completed_count, reviews_map,
                 sections_content, exc, watched>>

(* --------------------------- CerebrasClient ---------------------------- *)
\* the methods of class CerebrasClient in the order the class body defines
\* them, each with the line of its `def` and its named parameters
ClassBody ==
  << [name |-> "__init__", line |-> 16, params |-> {"api_keys_file", "model", "cache_file"}],
     [name |-> "_load_api_keys", line |-> 27, params |-> {"filepath"}],
     [name |-> "_initialize_client", line |-> 39, params |-> {}],
     [name |-> "_get_cached_key", line |-> 54, params |-> {}],
     [name |-> "_save_cached_key", line |-> 64, params |-> {"key"}],
     [name |-> "_rotate_key", line |-> 72, params |-> {}],
     [name |-> "generate", line |-> 86,
      params |-> {"prompt", "system_prompt", "max_tokens", "temperature"}],
     [name |-> "_load_key_cache", line |-> 148, params |-> {}],
     [name |-> "_save_key_cache", line |-> 165, params |-> {}],
     [name |-> "_init_client", line |-> 174, params |-> {"key_index"}],
     [name |-> "_rotate_key", line |-> 188, params |-> {}],
     [name |-> "generate", line |-> 218,
      params |-> {"prompt", "max_tokens", "temperature", "stream", "use_reasoning",
                  "model_override", "system_prompt"}] >>

\* a later `def` of the same name rebinds it: the class keeps the last one
Method(name) ==
  LET at == {i \in DOMAIN ClassBody : ClassBody[i].name = name}
  IN  ClassBody[CHOOSE i \in at : \A j \in at : i >= j]

\* a call with keyword arguments binds only if the method names them all
Binds(name, kwargs) == kwargs \subseteq Method(name).params

NoClient == -1
KeyIndexes == 0..(nKeys - 1)

NoCache == [kind |-> "none", k |-> 0]
CachedIndex(k) == [kind |-> "index", k |-> k]
CachedKey(k) == [kind |-> "key", k |-> k]

\* what the backend does with a request sent with one key
KeyBehaviours == {"ok", "auth", "error"}

\* the response object of a request that went through: its choices, the
\* message content (the streamed deltas joined) and the `reasoning` field
Contents == {<<>>, <<"a">>}
Responses == [choices : BOOLEAN, content : Contents, reasoning : Contents]

\* lines 262-307: the text generate returns for a response
ResponseText(st, resp) ==
  IF st THEN (IF resp.choices THEN resp.content ELSE <<>>)
  ELSE IF ~resp.choices THEN <<>>
  ELSE IF resp.content # <<>> THEN resp.content
  ELSE resp.reasoning

\* a scan that takes the next key whether or not it is marked failed
RotateScan_ignoresFailed(ki, failed, n) == (ki + 1) % nKeys

\* lines 196-213: the scan for the next key that is not marked failed
\* (Cerebras(api_key=key) does not fail for the non-empty keys of the file)
RECURSIVE RotateScan(_, _, _)
RotateScan(ki, failed, n) ==
  IF n >= nKeys THEN NoClient
  ELSE LET next_index == (ki + 1 + n) % nKeys
       IN  IF next_index \in failed THEN RotateScan(ki, failed, n + 1) ELSE next_index

\* _rotate_key of line 188: the index rotated to, NoClient when it returns False
rotate_key(ki, failed) == IF nKeys <= 1 THEN NoClient ELSE RotateScan(ki, failed, 0)

\* lines 174-183: _init_client(idx) sets the client and the index, saves the index
InitClient(idx) ==
  /\ real_client' = idx
  /\ key_index' = idx
  /\ cache' = CachedIndex(idx)

\* lines 39-52: _initialize_client. The cache content is compared with the
\* keys themselves; an index never is one, and then _rotate_key runs
InitializeClient ==
  IF cache.kind = "key" /\ cache.k \in KeyIndexes
    THEN \* self.client is set; _real_client, key_index and the cache are not
         UNCHANGED <<real_client, key_index, cache>>
    ELSE LET next_index == rotate_key(-1, {})
         IN  IF next_index = NoClient
               THEN UNCHANGED <<real_client, key_index, cache>>
               ELSE InitClient(next_index)

\* the per-thread state of generate
CallIdle(ts) ==
  /\ cthreads = ts
  /\ cpc = [t \in ts |-> "idle"]
  /\ stream = [t \in ts |-> FALSE]
  /\ attempts = [t \in ts |-> 0]
  /\ reqKey = [t \in ts |-> NoClient]
  /\ nReq = [t \in ts |-> 0]
  /\ failedInCall = [t \in ts |-> {}]
  /\ cOut = [t \in ts |-> NoText]

\* lines 16-25: __init__ (also the constructor of a later run of the program)
Construct ==
  /\ \A t \in cthreads : cpc[t] \in {"idle", "returned", "raised"}
  /\ instances < MaxInstances
  /\ instances' = instances + 1
  /\ cachedAtInit' = cache
  /\ failed_keys' = {}
  /\ InitializeClient
  /\ cpc' = [t \in cthreads |-> "idle"]
  /\ cOut' = [t \in cthreads |-> NoText]
  /\ cCalls' = 0
  /\ UNCHANGED <<nKeys, keyBehav, cthreads, stream, attempts, reqKey, nReq, failedInCall>>

\* lines 230-234: generate is entered
CerebrasEnter(t) ==
  /\ instances > 0
  /\ cpc[t] \in {"idle", "returned", "raised"}
  /\ cCalls < MaxCerebrasCalls
  /\ cCalls' = cCalls + 1
  /\ \E st \in BOOLEAN : stream' = [stream EXCEPT ![t] = st]
  /\ attempts' = [attempts EXCEPT ![t] = 0]
  /\ reqKey' = [reqKey EXCEPT ![t] = NoClient]
  /\ nReq' = [nReq EXCEPT ![t] = 0]
  /\ failedInCall' = [failedInCall EXCEPT ![t] = {}]
  /\ cOut' = [cOut EXCEPT ![t] = NoText]
  /\ cpc' = [cpc EXCEPT ![t] = "loop"]
  /\ UNCHANGED <<nKeys, keyBehav, cache, instances, cachedAtInit, key_index, failed_keys,
                 real_client, cthreads>>

\* lines 236-260 and 338: the loop test, the check of the client, the request
CerebrasSend(t) ==
  /\ cpc[t] = "loop"
  /\ IF attempts[t] >= 2 * nKeys
       THEN \* line 338
            /\ cpc' = [cpc EXCEPT ![t] = "raised"]
            /\ cOut' = [cOut EXCEPT ![t] = Raised]
            /\ UNCHANGED <<reqKey, nReq>>
       ELSE IF real_client = NoClient
         THEN \* line 239 (or the missing attribute), re-raised at line 336
              /\ cpc' = [cpc EXCEPT ![t] = "raised"]
              /\ cOut' = [cOut EXCEPT ![t] = Raised]
              /\ UNCHANGED <<reqKey, nReq>>
         ELSE /\ cpc' = [cpc EXCEPT ![t] = "sent"]
              /\ reqKey' = [reqKey EXCEPT ![t] = real_client]
              /\ nReq' = [nReq EXCEPT ![t] = @ + 1]
              /\ UNCHANGED cOut
  /\ UNCHANGED <<nKeys, keyBehav, cache, instances, cachedAtInit, key_index, failed_keys,
                 real_client, cthreads, stream, attempts, failedInCall, cCalls>>

\* lines 262-307: the request went through
CerebrasAnswer(t) ==
  /\ cpc[t] = "sent"
  /\ keyBehav[reqKey[t]] = "ok"
  /\ \E resp \in Responses :
       LET text == ResponseText(stream[t], resp)
       IN  /\ cOut' = [cOut EXCEPT ![t] = text]
           /\ cpc' = [cpc EXCEPT ![t] = "returned"]
           \* line 305: only the non-streaming path with choices saves the index
           /\ cache' = IF ~stream[t] /\ resp.choices THEN CachedIndex(key_index) ELSE cache
  /\ UNCHANGED <<nKeys, keyBehav, instances, cachedAtInit, key_index, failed_keys,
                 real_client, cthreads, stream, attempts, reqKey, nReq, failedInCall, cCalls>>

\* lines 309-336: the request raised
CerebrasError(t) ==
  /\ cpc[t] = "sent"
  /\ keyBehav[reqKey[t]] # "ok"
  /\ IF keyBehav[reqKey[t]] = "auth"
       THEN LET current_key == key_index
                failed == failed_keys \cup {current_key}
                next_index == rotate_key(key_index, failed)
            IN  /\ failed_keys' = failed
                /\ failedInCall' = [failedInCall EXCEPT ![t] = @ \cup {current_key}]
                /\ IF next_index = NoClient
                     THEN \* line 325
                          /\ cpc' = [cpc EXCEPT ![t] = "raised"]
                          /\ cOut' = [cOut EXCEPT ![t] = Raised]
                          /\ UNCHANGED <<real_client, key_index, cache, attempts>>
                     ELSE /\ InitClient(next_index)
                          /\ attempts' = [attempts EXCEPT ![t] = @ + 1]
                          /\ cpc' = [cpc EXCEPT ![t] = "backoff"]
                          /\ UNCHANGED cOut
       ELSE \* line 336
            /\ cpc' = [cpc EXCEPT ![t] = "raised"]
            /\ cOut' = [cOut EXCEPT ![t] = Raised]
            /\ UNCHANGED <<real_client, key_index, cache, attempts, failed_keys, failedInCall>>
  /\ UNCHANGED <<nKeys, keyBehav, instances, cachedAtInit, cthreads, stream, reqKey, nReq,
                 cCalls>>

\* lines 328-332: the wait before the next attempt is over
CerebrasBackoff(t) ==
  /\ cpc[t] = "backoff"
  /\ cpc' = [cpc EXCEPT ![t] = "loop"]
  /\ UNCHANGED <<nKeys, keyBehav, cache, instances, cachedAtInit, key_index, failed_keys,
                 real_client, cthreads, stream, attempts, reqKey, nReq, failedInCall, cOut,
                 cCalls>>

CerebrasStep(t) ==
  \/ CerebrasEnter(t)
  \/ CerebrasSend(t)
  \/ CerebrasAnswer(t)
  \/ CerebrasError(t)
  \/ CerebrasBackoff(t)

\* the key file, the backend and the cache file a program run starts with;
\* no client object exists yet
CerebrasEnv ==
  /\ nKeys \in 1..MaxKeys
  /\ keyBehav \in [0..(nKeys - 1) -> KeyBehaviours]
  /\ cache \in {NoCache} \cup {CachedIndex(k) : k \in 0..(nKeys - 1)}
               \cup {CachedKey(k) : k \in 0..(nKeys - 1)}
  /\ instances = 0
  /\ cachedAtInit = NoCache
  /\ key_index = -1
  /\ failed_keys = {}
  /\ real_client = NoClient
  /\ cCalls = 0

\* the Cerebras variables while another component is exercised
CerebrasOff ==
  /\ nKeys = 1
  /\ keyBehav = [k \in {0} |-> "ok"]
  /\ cache = NoCache
  /\ instances = 0
  /\ cachedAtInit = NoCache
  /\ key_index = -1
  /\ failed_keys = {}
  /\ real_client = NoClient
  /\ cCalls = 0
  /\ CallIdle({})

(* ------------------ AIContentGenerator.classify_keyword ---------------- *)
ReplyChars == {"1", "2", "3", "a", " "}
Replies == SeqsUpTo(ReplyChars, MaxReplyLen)

\* lines 97-104: the keyword arguments of the call of cerebras.generate
ClassifyKwargs == {"prompt", "max_tokens", "temperature", "model_override",
                   "system_prompt", "min_length"}

\* self.client.cerebras.generate(**kwargs): a keyword the method does not
\* name raises TypeError before the body runs; else rep is what it hands back
CallGenerate(kwargs, rep) == IF Binds("generate", kwargs) THEN rep ELSE Raised

\* lines 110-114: type_map
type_map == [c \in {"1", "2", "3"} |->
               IF c = "1" THEN "review" ELSE IF c = "2" THEN "info" ELSE "skip"]

\* lines 117-125: the first character that is a key of type_map decides;
\* without one the default is skip
RECURSIVE FirstMapped(_)
FirstMapped(text) ==
  IF text = <<>> THEN "skip"
  ELSE IF Head(text) \in DOMAIN type_map THEN type_map[Head(text)]
  ELSE FirstMapped(Tail(text))

\* an except branch that hands the error on
ClassifyExcept_reraise == "raised"

\* lines 127-129: every exception ends in skip
ClassifyExcept == "skip"

\* lines 94-129
classify_keyword(rep) ==
  LET answer == CallGenerate(ClassifyKwargs, rep)
  IN  IF answer = Raised THEN ClassifyExcept ELSE FirstMapped(Strip(answer))

\* the types the return statements of classify_keyword name
ClassifyReturns == {type_map[c] : c \in DOMAIN type_map} \cup {ClassifyExcept}

\* one call of classify_keyword
Classify ==
  /\ clpc = "idle"
  /\ classification' = classify_keyword(reply)
  /\ clpc' = "classified"
  /\ UNCHANGED reply

ClassifyOff ==
  /\ reply = NoText
  /\ classification = "none"
  /\ clpc = "off"

(* ---------------- AmazonWPPoster.process_keywords_file ----------------- *)
\* lines 337-340: keywords_to_process
NumToProcess == IF limit # 0 /\ limit < nKeywords THEN limit ELSE nKeywords

\* where process_keyword (lines 108-229) can end: the search raising or
\* finding nothing, the filter keeping nothing, the generation raising, the
\* publishing raising, or the post being created
ReviewEnds == {"search", "filter", "generate", "publish", "posted"}

\* where process_info_keyword (lines 231-299) can end
InfoEnds == {"generate", "publish", "posted"}

\* the collaborator calls made by a run that ends at `end`
CallsMade(kind, end) ==
  (IF kind = "review" THEN {"search"} ELSE {})
  \cup (IF end \in {"generate", "publish", "posted"} THEN {"generate"} ELSE {})
  \cup (IF end \in {"publish", "posted"} THEN {"publish"} ELSE {})

\* a loop that treats no intent as skip
IsSkip_never(it) == FALSE

\* line 351
IsSkip(it) == it = "skip"

\* a loop that stops only at the third failure in a row
ShouldStop_third(cf) == cf >= 3

\* line 385
ShouldStop(cf) == cf >= 2

\* the loop moves to the next keyword, or is over
NextKeyword(k) ==
  IF k < NumToProcess
    THEN kidx' = k + 1 /\ kpc' = "classify"
    ELSE kidx' = k /\ kpc' = "done"

\* lines 308-341: the file is read, the connection tested, the loop entered
RunStart ==
  /\ kpc = "start"
  /\ IF wp_ok
       THEN /\ kpc' = "classify"
            /\ kidx' = 1
       ELSE /\ kpc' = "done"
            /\ UNCHANGED kidx
  /\ UNCHANGED <<wp_ok, nKeywords, limit, intent, intents, consecutive_failures, kresults,
                 remaining, invoked, halted>>

\* a loop whose skip branch sets the failure counter back to 0
ClassifyStep_skipResets ==
  /\ kpc = "classify"
  /\ \E it \in ClassifyReturns :
       /\ intent' = it
       /\ intents' = Append(intents, it)
       /\ invoked' = invoked \cup {<<kidx, "classify">>}
       /\ IF IsSkip(it)
            THEN /\ kresults' = Append(kresults, FALSE)
                 /\ consecutive_failures' = 0
                 /\ NextKeyword(kidx)
            ELSE /\ kpc' = "process"
                 /\ UNCHANGED <<kresults, kidx, consecutive_failures>>
  /\ UNCHANGED <<wp_ok, nKeywords, limit, remaining, halted>>

\* lines 343-356: the keyword is classified; a skip is recorded and the loop
\* continues
ClassifyStep ==
  /\ kpc = "classify"
  /\ \E it \in ClassifyReturns :
       /\ intent' = it
       /\ intents' = Append(intents, it)
       /\ IF IsSkip(it)
            THEN /\ kresults' = Append(kresults, FALSE)
                 /\ invoked' = invoked \cup {<<kidx, "classify">>}
                 /\ NextKeyword(kidx)
            ELSE /\ invoked' = invoked \cup {<<kidx, "classify">>}
                 /\ kpc' = "process"
                 /\ UNCHANGED <<kresults, kidx>>
  /\ UNCHANGED <<wp_ok, nKeywords, limit, consecutive_failures, remaining, halted>>

\* lines 358-391: the keyword is processed and the outcome booked
ProcessStep ==
  /\ kpc = "process"
  /\ LET kind == IF intent = "info" THEN "info" ELSE "review"
     IN  \E end \in (IF kind = "info" THEN InfoEnds ELSE ReviewEnds) :
           LET success == end = "posted"
           IN  /\ invoked' = invoked \cup {<<kidx, op>> : op \in CallsMade(kind, end)}
               /\ kresults' = Append(kresults, success)
               /\ IF success
                    THEN /\ consecutive_failures' = 0
                         /\ remaining' = remaining \ {kidx}
                         /\ NextKeyword(kidx)
                         /\ UNCHANGED halted
                    ELSE /\ consecutive_failures' = consecutive_failures + 1
                         /\ UNCHANGED remaining
                         /\ IF ShouldStop(consecutive_failures + 1)
                              THEN /\ kpc' = "done"
                                   /\ halted' = TRUE
                                   /\ UNCHANGED kidx
                              ELSE /\ NextKeyword(kidx)
                                   /\ UNCHANGED halted
  /\ UNCHANGED <<wp_ok, nKeywords, limit, intent, intents>>

\* the arguments of process_keywords_file and its locals at entry
KeywordsEnv ==
  /\ wp_ok \in BOOLEAN
  /\ nKeywords \in 1..MaxKeywords
  /\ limit \in 0..nKeywords
  /\ kpc = "start"
  /\ kidx = 0
  /\ intent = "none"
  /\ intents = <<>>
  /\ consecutive_failures = 0
  /\ kresults = <<>>
  /\ remaining = 1..nKeywords
  /\ invoked = {}
  /\ halted = FALSE

KeywordsOff ==
  /\ wp_ok = TRUE
  /\ nKeywords = 0
  /\ limit = 0
  /\ kpc = "off"
  /\ kidx = 0
  /\ intent = "none"
  /\ intents = <<>>
  /\ consecutive_failures = 0
  /\ kresults = <<>>
  /\ remaining = {}
  /\ invoked = {}
  /\ halted = FALSE

(* ------------------ AIContentGenerator.select_category ----------------- *)
Letters == {"a", "b", "c", "d", "e", "f", "g", "h", "i", "j", "k", "l", "m", "n", "o", "p",
            "q", "r", "s", "t", "u", "v", "w", "x", "y", "z", "A"}
DigitValue == [c \in {"1", "2", "3"} |-> IF c = "1" THEN 1 ELSE IF c = "2" THEN 2 ELSE 3]

\* the classes \w, \d and \s of the regular expressions
IsWordChar(c) == c \in Letters \cup DOMAIN DigitValue
IsDigit(c) == c \in DOMAIN DigitValue
IsSpace(c) == c = " "

\* lines 48-54: the keyword arguments of the call of self.client.generate
SelectKwargs == {"prompt", "max_tokens", "temperature", "model_override", "min_length"}

\* self.client.generate(**kwargs): a keyword the method does not name raises
\* TypeError before the body runs; else rep is what it hands back
\* (unified_ai_client.py lines 46-49: the parameters of UnifiedAIClient.generate)
ClientGenerate(kwargs, rep) ==
  LET GenerateParams == {"prompt", "system_prompt", "max_tokens", "temperature", "stream",
                         "use_reasoning", "model_override"}
  IN  IF kwargs \subseteq GenerateParams THEN rep ELSE Raised

\* the maximal runs of characters of class \w, in order
RECURSIVE WordRuns(_, _)
WordRuns(text, cur) ==
  LET done == IF cur = <<>> THEN <<>> ELSE <<cur>>
  IN  IF text = <<>> THEN done
      ELSE IF IsWordChar(Head(text)) THEN WordRuns(Tail(text), Append(cur, Head(text)))
      ELSE done \o WordRuns(Tail(text), <<>>)

\* int(num)
RECURSIVE IntOf(_, _)
IntOf(num, n) == IF num = <<>> THEN n ELSE IntOf(Tail(num), 10 * n + DigitValue[Head(num)])

AllDigits(w) == \A k \in 1..Len(w) : IsDigit(w[k])

\* line 58: re.findall(r'\b(\d+)\b', response): the words made of digits only
FoundIds(text) ==
  LET words == WordRuns(text, <<>>)
      nums == SelectSeq(words, AllDigits)
  IN  [k \in 1..Len(nums) |-> IntOf(nums[k], 0)]

\* lines 22-71; categories maps the id of each category to its name
select_category(categories, rep) ==
  LET \* lines 61-65: the first number that is the id of a category with a name
      RECURSIVE FirstValid(_)
      FirstValid(found_ids) ==
        IF found_ids = <<>> THEN 0   \* line 67
        ELSE IF Head(found_ids) \in DOMAIN categories /\ categories[Head(found_ids)] # ""
               THEN Head(found_ids)
        ELSE FirstValid(Tail(found_ids))
  IN  IF DOMAIN categories = {} THEN 0
      ELSE LET answer == ClientGenerate(SelectKwargs, rep)
           IN  IF answer = Raised THEN 0   \* lines 69-71
               ELSE FirstValid(FoundIds(answer))

\* the ids of the WordPress categories handed to select_category
CategoryIds == {1, 3, 12}
CategoryLists == {[id \in S |-> "Garden"] : S \in SUBSET CategoryIds}

\* main.py lines 153 and 259: one call of select_category
SelectCategory ==
  /\ fpc = "called"
  /\ callee = "select_category"
  /\ result' = select_category(args.categories, args.reply)
  /\ fpc' = "returned"
  /\ UNCHANGED <<callee, args>>

(* ------------------- AIContentGenerator._extract_json ------------------ *)
\* the texts below are single lines: no alphabet used here has a line break

\* str.find: index (from 0) of the first c in text, -1 without one
RECURSIVE Find(_, _)
Find(text, c) ==
  IF text = <<>> THEN -1
  ELSE IF Head(text) = c THEN 0
  ELSE LET rest == Find(Tail(text), c) IN IF rest = -1 THEN -1 ELSE rest + 1

\* str.rfind: index (from 0) of the last c in text, -1 without one
RECURSIVE RFind(_, _)
RFind(text, c) ==
  IF text = <<>> THEN -1
  ELSE IF text[Len(text)] = c THEN Len(text) - 1
  ELSE RFind(SubSeq(text, 1, Len(text) - 1), c)

\* text[a:b+1]
Slice(text, a, b) == SubSeq(text, a + 1, b + 1)

HasPrefix(text, p) == Len(text) >= Len(p) /\ SubSeq(text, 1, Len(p)) = p
HasSuffix(text, p) ==
  Len(text) >= Len(p) /\ SubSeq(text, Len(text) - Len(p) + 1, Len(text)) = p
Drop(text, n) == SubSeq(text, n + 1, Len(text))

\* a backquote character
Tick == "tick"
Fence == <<Tick, Tick, Tick>>

\* lines 217-222
Unfenced(text) ==
  LET \* line 220: an opening fence of three backquotes at the start goes, with
      \* the word json and the whitespace after it
      OpenFenceRemoved(t) ==
        IF ~HasPrefix(t, Fence) THEN t
        ELSE LET a == Drop(t, 3)
                 b == IF HasPrefix(a, <<"j", "s", "o", "n">>) THEN Drop(a, 4) ELSE a
             IN  LStrip(b)
      \* line 221: a closing fence of three backquotes at the end goes, with the
      \* whitespace before it
      CloseFenceRemoved(t) ==
        IF ~HasSuffix(t, Fence) THEN t
        ELSE RStrip(SubSeq(t, 1, Len(t) - 3))
  IN  Strip(CloseFenceRemoved(OpenFenceRemoved(Strip(text))))

\* a choice that prefers the object whenever there is one
ArrayFirst_objectWins(arr_start, obj_start) == arr_start # -1 /\ obj_start = -1

\* line 231: the array is taken when it opens before the object, or alone
ArrayFirst(arr_start, obj_start) ==
  arr_start # -1 /\ (obj_start = -1 \/ arr_start < obj_start)

\* lines 215-240
extract_json(raw) ==
  LET text == Unfenced(raw)
      obj_start == Find(text, "{")
      obj_end == RFind(text, "}")
      arr_start == Find(text, "[")
      arr_end == RFind(text, "]")
  IN  IF ArrayFirst(arr_start, obj_start)
        THEN IF arr_start # -1 /\ arr_end # -1 /\ arr_end > arr_start
               THEN Slice(text, arr_start, arr_end)
               ELSE text
        ELSE IF obj_start # -1 /\ obj_end # -1 /\ obj_end > obj_start
               THEN Slice(text, obj_start, obj_end)
               ELSE text

\* the texts a backend hands back for a JSON prompt
JsonChars == {"{", "}", "[", "]", "a", " ", Tick}
JsonTexts == SeqsUpTo(JsonChars, MaxJsonLen)

\* line 452: one call of _extract_json
ExtractJson ==
  /\ fpc = "called"
  /\ callee = "_extract_json"
  /\ result' = extract_json(args.text)
  /\ fpc' = "returned"
  /\ UNCHANGED <<callee, args>>

(* -------------------- AIContentGenerator._clean_intro ------------------ *)
min_intro_words == 40     \* lines 296 and 359
max_intro_words == 150    \* line 296
min_sentence_len == 20    \* line 364

Quote == "\""
LeftQuote == "ldq"        \* a left double quotation mark
RightQuote == "rdq"       \* a right double quotation mark

RECURSIVE LStripChars(_, _)
LStripChars(s, cs) == IF s # <<>> /\ Head(s) \in cs THEN LStripChars(Tail(s), cs) ELSE s

RECURSIVE RStripChars(_, _)
RStripChars(s, cs) ==
  IF s # <<>> /\ s[Len(s)] \in cs THEN RStripChars(SubSeq(s, 1, Len(s) - 1), cs) ELSE s

\* str.strip(chars)
StripChars(s, cs) == RStripChars(LStripChars(s, cs), cs)

\* re.sub(r'\s+', ' ', s)
RECURSIVE CollapseSpaces(_)
CollapseSpaces(s) ==
  IF s = <<>> THEN <<>>
  ELSE IF IsSpace(Head(s)) THEN <<" ">> \o CollapseSpaces(LStrip(s))
  ELSE <<Head(s)>> \o CollapseSpaces(Tail(s))

\* sub in s
Contains(s, sub) ==
  \E k \in 0..(Len(s) - Len(sub)) : SubSeq(s, k + 1, k + Len(sub)) = sub

\* str.lower()
Lower(s) == [k \in 1..Len(s) |-> IF s[k] = "A" THEN "a" ELSE s[k]]

\* str.split(): the maximal runs of characters that are not whitespace
RECURSIVE SplitWords(_, _)
SplitWords(text, cur) ==
  LET done == IF cur = <<>> THEN <<>> ELSE <<cur>>
  IN  IF text = <<>> THEN done
      ELSE IF ~IsSpace(Head(text)) THEN SplitWords(Tail(text), Append(cur, Head(text)))
      ELSE done \o SplitWords(Tail(text), <<>>)

\* ' '.join(parts)
RECURSIVE Join(_)
Join(parts) ==
  IF parts = <<>> THEN <<>>
  ELSE IF Len(parts) = 1 THEN parts[1]
  ELSE parts[1] \o <<" ">> \o Join(Tail(parts))

\* lines 264-274
is_instruction(segment) ==
  LET \* lines 266-270
      instruction_tokens ==
        { <<"w", "e", " ", "n", "e", "e", "d">>, <<"l", "e", "t", "'", "s">>,
          <<"l", "e", "t", "s">>, <<"w", "o", "r", "d", " ", "c", "o", "u", "n", "t">>,
          <<"c", "h", "a", "r", "a", "c", "t", "e", "r", " ", "c", "o", "u", "n", "t">>,
          <<"i", " ", "w", "i", "l", "l">>, <<"d", "r", "a", "f", "t">>,
          <<"p", "l", "a", "n">>, <<"o", "u", "t", "l", "i", "n", "e">>,
          <<"a", "n", "a", "l", "y", "s", "i", "s">>,
          <<"a", "p", "p", "r", "o", "a", "c", "h">>, <<"s", "t", "e", "p">>,
          <<"g", "o", "a", "l">>, <<"o", "b", "j", "e", "c", "t", "i", "v", "e">>,
          <<"s", "t", "r", "a", "t", "e", "g", "y">> }
      \* line 272: re.search(r'^\s*["\']?\w+["\']?\s*:', segment)
      DropQuote(t) == IF t # <<>> /\ Head(t) \in {Quote, "'"} THEN Tail(t) ELSE t
      a == DropQuote(LStrip(segment))
      b == LStripChars(a, {c \in Letters \cup DOMAIN DigitValue : IsWordChar(c)})
      c == LStrip(DropQuote(b))
      LooksLikeKey == b # a /\ c # <<>> /\ Head(c) = ":"
  IN  \/ LooksLikeKey
      \/ \E token \in instruction_tokens : Contains(Lower(segment), token)

\* line 280: re.finditer(r'["“](.+?)["”]', text): from an opening quote to the
\* nearest closing quote that leaves a character between them
RECURSIVE QuotedBlocks(_)
QuotedBlocks(text) ==
  IF Len(text) < 3 THEN <<>>
  ELSE LET ends == {k \in 3..Len(text) : text[k] \in {Quote, RightQuote}}
       IN  IF Head(text) \in {Quote, LeftQuote} /\ ends # {}
             THEN LET j == CHOOSE k \in ends : \A m \in ends : k <= m
                  IN  <<Strip(SubSeq(text, 2, j - 1))>> \o QuotedBlocks(Drop(text, j))
             ELSE QuotedBlocks(Tail(text))

\* lines 290-299; a candidate seen before was turned down before
RECURSIVE FirstAccepted(_)
FirstAccepted(candidates) ==
  IF candidates = <<>> THEN NoText
  ELSE LET \* lines 287-288
           normalized ==
             CollapseSpaces(StripChars(Head(candidates),
                                       {Quote, LeftQuote, RightQuote, " ", ",", ":", "{",
                                        "}", "[", "]"}))
           \* line 293: len(re.findall(r'\w+', normalized))
           word_count == Len(WordRuns(normalized, <<>>))
       IN  IF /\ normalized # <<>>
              /\ min_intro_words <= word_count
              /\ word_count <= max_intro_words
              /\ ~is_instruction(normalized)
              /\ ~EndsWith(normalized, ":")
             THEN normalized
             ELSE FirstAccepted(Tail(candidates))

\* lines 302 and 358: re.split(r'(?<=[.!?])\s+', text)
RECURSIVE Sentences(_, _)
Sentences(text, cur) ==
  IF text = <<>> THEN <<cur>>
  ELSE IF IsSpace(Head(text)) /\ cur # <<>> /\ cur[Len(cur)] \in {".", "!", "?"}
         THEN <<cur>> \o Sentences(LStrip(text), <<>>)
  ELSE Sentences(Tail(text), Append(cur, Head(text)))

\* lines 242-308. Lines 249-262 swap the text for a string of more than 20
\* words found under a content key of the object the text decodes to; the
\* texts called with here have at most 20 words, so the text stays
clean_intro(raw) ==
  IF raw = <<>> THEN <<>>
  ELSE
    LET text == Strip(raw)
        \* line 282: the lines that are not blank, stripped
        lines == IF text = <<>> THEN <<>> ELSE <<text>>
        accepted == FirstAccepted(QuotedBlocks(text) \o lines)
        \* line 303: the sentences kept by the fallback
        Kept(t) == t # <<>> /\ ~is_instruction(t)
        filtered == SelectSeq(Sentences(text, <<>>), Kept)
        fallback == StripChars(Join(filtered),
                               {Quote, LeftQuote, RightQuote, " ", ":", "{", "}", "[", "]"})
    IN  IF accepted # NoText THEN accepted
        ELSE IF fallback # <<>> THEN CollapseSpaces(fallback)
        ELSE CollapseSpaces(StripChars(text, {Quote, " ", "{", "}", "[", "]"}))

\* what a backend writes when asked for an intro
CleanChars == {":", "a", ".", " ", "{"}
CleanTexts == SeqsUpTo(CleanChars, MaxIntroLen)

\* line 356: _clean_intro is called on a text
CleanIntro ==
  /\ fpc = "called"
  /\ callee = "_clean_intro"
  /\ result' = clean_intro(args.text)
  /\ fpc' = "returned"
  /\ UNCHANGED <<callee, args>>

\* _clean_intro is called on what it returned
CleanAgain ==
  /\ fpc = "returned"
  /\ callee = "_clean_intro"
  /\ args' = [text |-> result]
  /\ result' = clean_intro(result)
  /\ fpc' = "again"
  /\ UNCHANGED callee

(* ------------------- AIContentGenerator.generate_intro ----------------- *)
\* lines 347-353: the keyword arguments of the call of self.client.generate
IntroKwargs == {"prompt", "max_tokens", "temperature", "stream", "model_override"}

\* lines 361-367: going back from the last sentence, the sentences of more
\* than 20 characters without a meta word, until they make 40 words
RECURSIVE LastCluster(_, _)
LastCluster(sentences, clean_sentences) ==
  IF sentences = <<>> THEN clean_sentences
  ELSE LET \* line 364
           meta_words ==
             { <<"w", "o", "r", "d">>, <<"p", "a", "r", "a", "g", "r", "a", "p", "h">>,
               <<"i", "n", "t", "r", "o">>, <<"w", "r", "i", "t", "e">>,
               <<"m", "u", "s", "t">>, <<"o", "u", "t", "p", "u", "t">> }
           sent == sentences[Len(sentences)]
           rest == SubSeq(sentences, 1, Len(sentences) - 1)
           longer == <<sent>> \o clean_sentences
       IN  IF Len(sent) > min_sentence_len
              /\ ~\E word \in meta_words : Contains(Lower(sent), word)
             THEN IF Len(SplitWords(Join(longer), <<>>)) >= min_intro_words
                    THEN longer
                    ELSE LastCluster(rest, longer)
             ELSE LastCluster(rest, clean_sentences)

\* line 374: re.sub(r'\*\*(.+?)\*\*', r'\1', intro): the markers go, from a
\* pair of asterisks to the nearest pair that leaves a character between them
RECURSIVE Unbold(_)
Unbold(s) ==
  IF Len(s) < 5 THEN s
  ELSE LET ends == {k \in 4..(Len(s) - 1) : s[k] = "*" /\ s[k + 1] = "*"}
       IN  IF s[1] = "*" /\ s[2] = "*" /\ ends # {}
             THEN LET j == CHOOSE k \in ends : \A m \in ends : k <= m
                  IN  SubSeq(s, 3, j - 1) \o Unbold(Drop(s, j + 1))
             ELSE <<Head(s)>> \o Unbold(Tail(s))

\* lines 333-381, rep being what the backend hands back; the keyword goes
\* into the prompt only, and _bold_keyword_in_text (lines 310-331) is not called
generate_intro_text(keyword, rep) ==
  LET raw_intro == ClientGenerate(IntroKwargs, rep)
  IN  IF raw_intro = Raised THEN Raised   \* lines 379-381
      ELSE LET cleaned == clean_intro(raw_intro)
               clean_sentences == LastCluster(Sentences(raw_intro, <<>>), <<>>)
               intro == IF Len(SplitWords(cleaned, <<>>)) < min_intro_words
                           /\ clean_sentences # <<>>
                          THEN Join(clean_sentences)
                          ELSE cleaned
           IN  Unbold(Strip(intro))

\* what a backend writes when asked for an intro about a keyword
IntroChars == {"a", "A", " ", "*"}
IntroTexts == SeqsUpTo(IntroChars, MaxIntroLen)
Keywords == {<<"a">>, <<"a", " ", "A">>}

\* line 961: one call of generate_intro
GenerateIntro ==
  /\ fpc = "called"
  /\ callee = "generate_intro"
  /\ result' = generate_intro_text(args.keyword, args.reply)
  /\ fpc' = "returned"
  /\ UNCHANGED <<callee, args>>

(* ------------ AIContentGenerator.generate_badges: validation ----------- *)
\* what json.loads can hand to the validation of lines 456-463. A decoded
\* value has a kind; an object has its fields, an array or a string the
\* strings it holds; a value under top_recommendation or badges has the keys
\* it has as an object, and an array of badges holds items with or without
\* their keys
Payloads ==
  LET Json(kind, keys, holds) == [kind |-> kind, keys |-> keys, holds |-> holds]
      JsonKinds == {"object", "array", "string", "number", "null"}
      TopValues == {Json(k, ks, {}) : k \in JsonKinds, ks \in {{}, {"asin"}}}
                     \ {Json(k, {"asin"}, {}) : k \in JsonKinds \ {"object"}}
      BadgesValues == {Json(k, {}, h) : k \in JsonKinds, h \in {{}, {"incomplete item"}}}
                        \ {Json(k, {}, {"incomplete item"}) : k \in JsonKinds \ {"array"}}
  IN  {[kind |-> "object", fields |-> f, holds |-> {}] :
         f \in UNION {[S -> TopValues \cup BadgesValues] :
                        S \in SUBSET {"top_recommendation", "badges"}}}
      \cup {[kind |-> k, fields |-> <<>>, holds |-> h] :
              k \in {"array", "string"}, h \in SUBSET {"top_recommendation", "badges"}}
      \cup {[kind |-> k, fields |-> <<>>, holds |-> {}] : k \in {"number", "null"}}

\* lines 456-464: "ok" when the attempt returns data, else the exception that
\* ends the attempt
validate_badges(data) ==
  LET \* `key in data` for an object, an array or a string
      Has(key) ==
        IF data.kind = "object" THEN key \in DOMAIN data.fields ELSE key \in data.holds
      \* line 463: the log line evaluates data['top_recommendation']['asin']
      LogLine(top) ==
        IF top.kind # "object" THEN "TypeError"
        ELSE IF "asin" \in top.keys THEN "ok" ELSE "KeyError"
  IN  IF data.kind \in {"number", "null"} THEN "TypeError"     \* `in` on it, line 457
      ELSE IF ~Has("top_recommendation") \/ ~Has("badges") THEN "ValueError"
      ELSE IF data.kind # "object" THEN "TypeError"            \* data['badges'], line 460
      ELSE IF data.fields["badges"].kind # "array" THEN "ValueError"
      ELSE LogLine(data.fields["top_recommendation"])

\* lines 440-464: one attempt of generate_badges whose response decodes
BadgesAttempt ==
  /\ fpc = "called"
  /\ callee = "generate_badges"
  /\ result' = validate_badges(args.data)
  /\ fpc' = "returned"
  /\ UNCHANGED <<callee, args>>

(* -------------------- HTMLBuilder.build_full_post ---------------------- *)
\* main.py lines 179-188: the keyword arguments of process_keyword's call
MainBuildKwargs == {"keyword", "intro", "products", "badges_data", "buying_guide", "faqs",
                    "reviews_map", "takeaways"}

\* quick_test.py lines 98-105: the keyword arguments of the quick test's call
QuickBuildKwargs == {"keyword", "intro", "products", "badges_data", "buying_guide", "faqs"}

\* html_builder.py lines 189-216: a call that does not fit the parameters
\* raises TypeError before the body runs; else the HTML, section by section
build_full_post(kwargs, values) ==
  LET \* lines 190-191: the parameters, and those without a default
      BuildParams == {"keyword", "intro", "products", "badges_data", "buying_guide",
                      "faqs", "reviews_map"}
      BuildRequired == BuildParams \ {"reviews_map"}
      Section(name, body) == [section |-> name, body |-> body]
  IN  IF ~(BuildRequired \subseteq kwargs /\ kwargs \subseteq BuildParams) THEN Raised
      ELSE << Section("intro", values.intro),
              Section("Editor's Choice", values.products),
              Section("product cards", values.products),
              Section("Buying Guide", values.buying_guide),
              Section("FAQs", values.faqs) >>

\* the hand-off values of generate_all_content_parallel: the intro, the
\* products, the guide, the FAQs and the takeaways (an empty list when the
\* takeaways step failed, ai_generator.py line 1049)
HandOffs ==
  [intro : {"short intro", "long intro"}, products : 1..MaxProducts,
   buying_guide : {"guide"}, faqs : {"no faqs", "faqs"},
   takeaways : SeqsUpTo({"first takeaway", "second takeaway"}, MaxTakeaways)]

\* main.py lines 179-188, quick_test.py lines 98-105: one call of build_full_post
BuildFullPost ==
  /\ fpc = "called"
  /\ callee = "build_full_post"
  /\ result' = build_full_post(args.kwargs, args.values)
  /\ fpc' = "returned"
  /\ UNCHANGED <<callee, args>>

\* no function is being called
CallOff ==
  /\ callee = "none"
  /\ args = <<>>
  /\ result = NoText
  /\ fpc = "off"

otherVars == <<cerebrasVars, classifyVars, keywordVars, callVars>>

vars == <<routerVars, obsVars, batchVars, otherVars>>

\* the batch variables while only the router is exercised
BatchOff ==
  /\ mode = "none"
  /\ nItems = 0
  /\ tasks = <<>>
  /\ bpc = "off"
  /\ frame = [i \in {0} |-> NewFrame]
  /\ submitted = 0
  /\ processed = {}
  /\ completed_count = 0
  /\ results = <<>>
  /\ reviews_map = <<>>
  /\ sections_content = <<>>
  /\ exc = NoErr
  /\ retval = {}
  /\ watched = 0
  /\ calls = 0

\* one caller issuing requests one after another
InitRouter ==
  RouterInit({1}) /\ ObsInit({1}) /\ BatchOff /\ CerebrasOff /\ ClassifyOff /\ KeywordsOff /\ CallOff
NextRouter ==
  \E t \in callers : RouterStep(t) /\ Observe(t) /\ UNCHANGED <<batchVars, otherVars>>
SpecRouter == InitRouter /\ [][NextRouter]_vars

\* two pool threads calling generate on the one router at the same time; the
\* backends answer with a truncated text, a complete text or an exception
ConcTexts == {<<"{">>, <<"a">>}
InitRouterMT ==
  RouterInit({1, 2}) /\ ObsInit({1, 2}) /\ BatchOff /\ CerebrasOff /\ ClassifyOff /\ KeywordsOff /\ CallOff
NextRouterMT ==
  \E t \in callers :
    /\ RouterStep(t)
    /\ primOut'[t] \in ConcTexts \cup {Raised, NoText}
    /\ response'[t] \in ConcTexts \cup {NoText}
    /\ Observe(t)
    /\ UNCHANGED <<batchVars, otherVars>>
SpecRouterMT == InitRouterMT /\ [][NextRouterMT]_vars

\* the router while only the generator is exercised
RouterOff ==
  /\ RouterInit({})
  /\ chat_zai_healthy
  /\ ObsInit({})

\* one run of generate_all_content_parallel or generate_info_content_parallel;
\* client.generate is represented by what each call ends in
InitBatch ==
  /\ RouterOff
  /\ CerebrasOff
  /\ ClassifyOff
  /\ KeywordsOff
  /\ CallOff
  /\ BatchArgs
  /\ BatchLocals
  /\ bpc = (IF mode = "review" THEN "intro" ELSE "outline")
  /\ frame = [i \in 0..N |-> IF i = 0 THEN [NewFrame EXCEPT !.st = "running"] ELSE NewFrame]
  /\ watched = -1   \* no invocation is watched
NextBatch ==
  \/ FirstStep /\ UNCHANGED <<routerVars, obsVars, otherVars>>
  \/ Submit /\ UNCHANGED <<routerVars, obsVars, otherVars>>
  \/ \E i \in 1..N : StartTask(i) /\ UNCHANGED <<routerVars, obsVars, otherVars>>
  \/ \E i \in 1..N : TaskRun(i) /\ UNCHANGED <<routerVars, obsVars, otherVars>>
  \/ \E i \in 1..N : Collect(i) /\ UNCHANGED <<routerVars, obsVars, otherVars>>
  \/ SleepDone /\ UNCHANGED <<routerVars, obsVars, otherVars>>
  \/ ExecutorExit /\ UNCHANGED <<routerVars, obsVars, otherVars>>
  \/ Takeaways /\ UNCHANGED <<routerVars, obsVars, otherVars>>
SpecBatch == InitBatch /\ [][NextBatch]_vars

\* line 998: the run of _generate_with_retry(func, *args) for one task of a
\* batch, with the calls of client.generate it makes counted
InitTask ==
  /\ RouterOff
  /\ CerebrasOff
  /\ ClassifyOff
  /\ KeywordsOff
  /\ CallOff
  /\ BatchArgs
  /\ BatchLocals
  /\ bpc = "task"
  /\ watched \in 1..N
  /\ frame = [i \in 0..N |-> IF i = watched THEN [NewFrame EXCEPT !.st = "running"] ELSE NewFrame]
NextTask == TaskAttempt(watched) /\ UNCHANGED <<routerVars, obsVars, otherVars>>
SpecTask == InitTask /\ [][NextTask]_vars

\* one CerebrasClient used by one thread, over the runs of the program that
\* share a cache file
InitCerebras ==
  CerebrasEnv /\ CallIdle({1}) /\ RouterOff /\ BatchOff /\ ClassifyOff /\ KeywordsOff /\ CallOff
NextCerebras ==
  \/ Construct /\ UNCHANGED <<routerVars, obsVars, batchVars, classifyVars, keywordVars, callVars>>
  \/ \E t \in cthreads :
       CerebrasStep(t) /\ UNCHANGED <<routerVars, obsVars, batchVars, classifyVars, keywordVars, callVars>>
SpecCerebras == InitCerebras /\ [][NextCerebras]_vars

\* a generate call runs on: the loop, the blocking request (the SDK ends it
\* with a response or an exception) and the sleep each come to an end
CerebrasRuns ==
  /\ CerebrasSend(1) \/ CerebrasAnswer(1) \/ CerebrasError(1) \/ CerebrasBackoff(1)
  /\ UNCHANGED <<routerVars, obsVars, batchVars, classifyVars, keywordVars, callVars>>
SpecCerebrasLive == InitCerebras /\ [][NextCerebras]_vars /\ WF_vars(CerebrasRuns)

\* one client shared by the pool threads of a batch, each thread a caller of
\* generate (ai_generator.py line 998 by way of UnifiedAIClient.generate)
InitCerebrasMT ==
  CerebrasEnv /\ CallIdle({1, 2}) /\ RouterOff /\ BatchOff /\ ClassifyOff /\ KeywordsOff /\ CallOff
SpecCerebrasMT == InitCerebrasMT /\ [][NextCerebras]_vars

\* classify_keyword called for a keyword, the backend's answer being any reply
InitClassify ==
  /\ reply \in Replies \cup {Raised}
  /\ classification = "none"
  /\ clpc = "idle"
  /\ RouterOff /\ BatchOff /\ CerebrasOff /\ KeywordsOff /\ CallOff
NextClassify == Classify /\ UNCHANGED <<routerVars, obsVars, batchVars, cerebrasVars, keywordVars, callVars>>
SpecClassify == InitClassify /\ [][NextClassify]_vars

\* one run of process_keywords_file, for every type the classifier can return
InitKeywords == KeywordsEnv /\ RouterOff /\ BatchOff /\ CerebrasOff /\ ClassifyOff /\ CallOff
NextKeywords ==
  \/ RunStart /\ UNCHANGED <<routerVars, obsVars, batchVars, cerebrasVars, classifyVars, callVars>>
  \/ ClassifyStep /\ UNCHANGED <<routerVars, obsVars, batchVars, cerebrasVars, classifyVars, callVars>>
  \/ ProcessStep /\ UNCHANGED <<routerVars, obsVars, batchVars, cerebrasVars, classifyVars, callVars>>
SpecKeywords == InitKeywords /\ [][NextKeywords]_vars

\* select_category called with any list of categories, the backend handing
\* back any short reply or failing
InitCategory ==
  /\ callee = "select_category"
  /\ args \in [categories : CategoryLists, reply : Replies \cup {Raised}]
  /\ result = NoText
  /\ fpc = "called"
  /\ RouterOff /\ BatchOff /\ CerebrasOff /\ ClassifyOff /\ KeywordsOff
NextCategory ==
  SelectCategory /\ UNCHANGED <<routerVars, obsVars, batchVars, cerebrasVars, classifyVars,
                                keywordVars>>
SpecCategory == InitCategory /\ [][NextCategory]_vars

\* _extract_json called on any short text
InitExtract ==
  /\ callee = "_extract_json"
  /\ args \in [text : JsonTexts]
  /\ result = NoText
  /\ fpc = "called"
  /\ RouterOff /\ BatchOff /\ CerebrasOff /\ ClassifyOff /\ KeywordsOff
NextExtract ==
  ExtractJson /\ UNCHANGED <<routerVars, obsVars, batchVars, cerebrasVars, classifyVars,
                             keywordVars>>
SpecExtract == InitExtract /\ [][NextExtract]_vars

\* _clean_intro called on any short text, then on its own output
InitClean ==
  /\ callee = "_clean_intro"
  /\ args \in [text : CleanTexts]
  /\ result = NoText
  /\ fpc = "called"
  /\ RouterOff /\ BatchOff /\ CerebrasOff /\ ClassifyOff /\ KeywordsOff
NextClean ==
  \/ CleanIntro /\ UNCHANGED <<routerVars, obsVars, batchVars, cerebrasVars, classifyVars,
                               keywordVars>>
  \/ CleanAgain /\ UNCHANGED <<routerVars, obsVars, batchVars, cerebrasVars, classifyVars,
                               keywordVars>>
SpecClean == InitClean /\ [][NextClean]_vars

\* generate_intro called for a keyword, the backend handing back any short
\* text or failing
InitIntro ==
  /\ callee = "generate_intro"
  /\ args \in [keyword : Keywords, reply : IntroTexts \cup {Raised}]
  /\ result = NoText
  /\ fpc = "called"
  /\ RouterOff /\ BatchOff /\ CerebrasOff /\ ClassifyOff /\ KeywordsOff
NextIntro ==
  GenerateIntro /\ UNCHANGED <<routerVars, obsVars, batchVars, cerebrasVars, classifyVars,
                               keywordVars>>
SpecIntro == InitIntro /\ [][NextIntro]_vars

\* an attempt of generate_badges on any decoded payload
InitBadges ==
  /\ callee = "generate_badges"
  /\ args \in [data : Payloads]
  /\ result = NoText
  /\ fpc = "called"
  /\ RouterOff /\ BatchOff /\ CerebrasOff /\ ClassifyOff /\ KeywordsOff
NextBadges ==
  BadgesAttempt /\ UNCHANGED <<routerVars, obsVars, batchVars, cerebrasVars, classifyVars,
                               keywordVars>>
SpecBadges == InitBadges /\ [][NextBadges]_vars

\* build_full_post called as main.py and quick_test.py call it
InitBuild ==
  /\ callee = "build_full_post"
  /\ args \in [kwargs : {MainBuildKwargs, QuickBuildKwargs}, values : HandOffs]
  /\ result = NoText
  /\ fpc = "called"
  /\ RouterOff /\ BatchOff /\ CerebrasOff /\ ClassifyOff /\ KeywordsOff
NextBuild ==
  BuildFullPost /\ UNCHANGED <<routerVars, obsVars, batchVars, cerebrasVars, classifyVars,
                               keywordVars>>
SpecBuild == InitBuild /\ [][NextBuild]_vars

(* ========================= claims on the router ======================== *)
Busy(t) == rpc[t] \notin {"idle"}
PastPrimary(t) == rpc[t] \in {"cerebras", "probe", "returned", "raised"}
SecondaryAnswered(t) == rpc[t] \in {"probe", "returned", "raised"}

\* the claim's own wording of a truncated JSON-looking text
OpeningOnly(text) ==
  LET s == Strip(text)
  IN  /\ text \in Texts
      /\ Len(s) > 0
      /\ \/ s[1] = "{" /\ s[Len(s)] # "}"
         \/ s[1] = "[" /\ s[Len(s)] # "]"

\* C1: a primary text that opens with { or [ and lacks the matching closer
\* makes the primary call count as failed: the flag is cleared before the
\* secondary is asked, the secondary is called exactly once, and the text
\* handed back is never the primary's.
C1_TruncatedPrimaryFallsBack ==
  \A t \in callers :
    OpeningOnly(primOut[t]) =>
      /\ PastPrimary(t)
      /\ rpc[t] = "cerebras" => ~chat_zai_healthy
      /\ SecondaryAnswered(t) => nSec[t] = 1
      /\ via[t] # "primary"
      /\ stats.chat_zai_failed >= 1

C1_Witness ==
  \E t \in callers :
    /\ OpeningOnly(primOut[t])
    /\ Strip(primOut[t])[1] = "["
    /\ rpc[t] = "returned"
    /\ via[t] = "secondary"

\* C2: a request that read the flag as false never calls the primary and
\* goes to the secondary.
C2_UnhealthySkipsPrimary ==
  \A t \in callers :
    (Busy(t) /\ ~entryHealthy[t]) =>
      /\ nPrim[t] = 0
      /\ primOut[t] = NoText
      /\ PastPrimary(t)
      /\ SecondaryAnswered(t) => nSec[t] = 1

C2_Witness ==
  \E t \in callers :
    /\ ~entryHealthy[t]
    /\ rpc[t] = "returned"
    /\ via[t] = "secondary"
    /\ nSec[t] = 1

\* C3: when the secondary fails the request raises; by then each backend was
\* called at most once (the primary only if the flag was set at entry, and
\* then it failed), the secondary exactly once, and the flag is false.
C3_BothFailedIsTerminal ==
  \A t \in callers :
    /\ secOut[t] = "raised" => rpc[t] = "raised"
    /\ rpc[t] = "raised" =>
         /\ secOut[t] = "raised"
         /\ nSec[t] = 1
         /\ nPrim[t] = (IF entryHealthy[t] THEN 1 ELSE 0)
         /\ entryHealthy[t] => (primOut[t] = Raised \/ OpeningOnly(primOut[t]))
         /\ response[t] = NoText
         /\ ~chat_zai_healthy

C3_Witness ==
  \E t \in callers :
    /\ rpc[t] = "raised"
    /\ entryHealthy[t]
    /\ nPrim[t] = 1
    /\ stats.cerebras_failed >= 1

\* C4: when a request has returned through the secondary, the flag holds the
\* result of the probe that request made after its secondary call.
C4_FlagIsProbeAfterSecondary ==
  \A t \in callers :
    (rpc[t] = "returned" /\ via[t] = "secondary") =>
      /\ secOut[t] = "text"
      /\ probed[t] = {chat_zai_healthy}

C4_Witness ==
  \E t \in callers :
    /\ rpc[t] = "returned"
    /\ via[t] = "secondary"
    /\ primOut[t] = Raised
    /\ probed[t] = {TRUE}
    /\ chat_zai_healthy

(* ==================== claims on the parallel batches =================== *)
PoolTasks == 1..N
Returned == CHOOSE r \in retval : TRUE
ReviewTasks == {i \in PoolTasks : tasks[i].name = "review_batch"}

\* the returned mapping holds what task i produced
Recorded(i) ==
  LET name == tasks[i].name
      res == frame[i].res
  IN  CASE name = "review_batch" ->
             /\ "reviews" \in DOMAIN Returned
             /\ DOMAIN res.map \subseteq DOMAIN Returned["reviews"].map
        [] name = "section" ->
             /\ "sections" \in DOMAIN Returned
             /\ tasks[i].idx \in DOMAIN Returned["sections"].map
             /\ Returned["sections"].map[tasks[i].idx] = res
        [] OTHER ->
             /\ name \in DOMAIN Returned
             /\ Returned[name] = res

\* every merged review is the review some batch task returned under that key
ReviewsComeFromBatches ==
  mode = "review" =>
    \A k \in DOMAIN Returned["reviews"].map :
      \E i \in ReviewTasks :
        /\ k \in DOMAIN frame[i].res.map
        /\ Returned["reviews"].map[k] = frame[i].res.map[k]

C6_FailedTaskNoMapping ==
  /\ (\E i \in PoolTasks : frame[i].st = "failed") =>
        /\ bpc \notin {"takeaways", "returned"}
        /\ retval = {}
  /\ bpc = "raised" => (retval = {} /\ exc # NoErr)
  /\ retval # {} => bpc = "returned"

C6_Witness ==
  /\ bpc = "raised"
  /\ retval = {}
  /\ \E i \in PoolTasks : frame[i].st = "failed" /\ exc = frame[i].err
  /\ \E j \in processed : frame[j].st = "ok" /\ tasks[j].name \in DOMAIN results

\* C7: when the collector has met a failed task, the caller gets the error at
\* once: it is not held back while other tasks of the batch are still running
\* or queued.
C7_ErrorSurfacesAtOnce ==
  (exc # NoErr /\ bpc = "exit_wait") =>
    \A i \in PoolTasks : frame[i].st \notin {"queued", "running"}

(* ======================= claims on a single task ======================= *)
Fr == frame[watched]

\* C8: _generate_with_retry calls the function at most 3 times; an attempt
\* that returns ends the loop with that attempt's result; after 3 raising
\* attempts the loop raises with the error of the third attempt.
C8_RetryAtMostThreeLastError ==
  bpc = "task" =>
    /\ Fr.attempt <= 3
    /\ Len(Fr.hist) = Fr.attempt
    /\ \A k \in 1..Len(Fr.hist) :
         Fr.hist[k] = "ok" => (k = Len(Fr.hist) /\ Fr.st = "ok" /\ Fr.res.at = k)
    /\ Fr.st = "ok" => Fr.hist[Fr.attempt] = "ok"
    /\ Fr.st = "running" => Fr.attempt < 3
    /\ Fr.st = "failed" =>
         /\ Fr.attempt = 3
         /\ Fr.err.attempt = 3
         /\ Fr.err = Fr.last_error

C8_Witness ==
  /\ bpc = "task"
  /\ Fr.st = "failed"
  /\ Fr.hist = <<"raise", "raise", "raise">>
  /\ Fr.err.attempt = 3

\* C9: a task of a batch makes at most 3 calls of client.generate.
C9_AtMostThreeGenerateCalls ==
  bpc = "task" => calls <= 3

\* C10: a review batch task over a non-empty batch never fails; when its 3
\* attempts all failed, its result maps exactly the products of the batch,
\* each to a templated review with a description, a pros list and a cons list.
Templated(rv, asin) ==
  /\ rv.description = <<"This product offers", asin>>
  /\ Len(rv.pros) = 3
  /\ Len(rv.cons) = 2

C10_ReviewBatchFallsBack ==
  (bpc = "task" /\ tasks[watched].name = "review_batch") =>
    LET products == BatchProducts(tasks[watched].idx)
    IN  /\ products # {}
        /\ Fr.st # "failed"
        /\ Fr.attempt <= 1
        /\ calls <= 3
        /\ Fr.st = "ok" =>
             /\ Fr.res.tag = "reviews"
             /\ Fr.fails = 3 =>
                  /\ DOMAIN Fr.res.map = products
                  /\ \A a \in products : Templated(Fr.res.map[a], a)

C10_Witness ==
  /\ bpc = "task"
  /\ tasks[watched].name = "review_batch"
  /\ Cardinality(BatchProducts(tasks[watched].idx)) = 2
  /\ Fr.st = "ok"
  /\ Fr.fails = 3
  /\ calls = 3

(* =================== claims on concurrent requests ===================== *)
\* C18: between a caller's read of the flag on entering generate and that
\* caller's own next write of the flag, no other caller reads or writes it.
C18_FlagWindowUndisturbed ==
  \A t \in callers : flagWin[t].wrote => flagWin[t].others = {}

\* C19: two calls in progress at the same time share no variable other than
\* the flag: none is written by one of them and read or written by the other.
C19_OnlyTheFlagIsShared ==
  \A t \in callers : \A u \in callers \ {t} :
    (InCall(t) /\ InCall(u)) =>
      \A a \in acc[t] : \A b \in acc[u] :
        (a[2] = "w" /\ a[1] = b[1]) => a[1] = "chat_zai_healthy"

PrimaryCallFailed(t) == primOut[t] = Raised \/ OpeningOnly(primOut[t])

\* C20: whatever the interleaving, one generate call invokes the primary at
\* most once, and only if it read the flag as true; it invokes the secondary
\* at most once, and only if it skipped the primary as unhealthy or its
\* primary call failed. A flag that another caller cleared after the read
\* costs the one primary call and no more.
C20_OnePrimaryOneSecondary ==
  \A t \in callers :
    /\ nPrim[t] <= 1
    /\ nSec[t] <= 1
    /\ nPrim[t] = 1 => entryHealthy[t]
    /\ nSec[t] = 1 =>
         \/ ~entryHealthy[t] /\ nPrim[t] = 0
         \/ nPrim[t] = 1 /\ PrimaryCallFailed(t)

C20_Witness ==
  \E t \in callers :
    /\ entryHealthy[t]
    /\ flagWin[t].others # {}
    /\ nPrim[t] = 1
    /\ nSec[t] = 1
    /\ rpc[t] = "returned"
    /\ via[t] = "secondary"

(* ================ claims on the classifier and the run ================= *)
Digits == {"1", "2", "3"}
HasDigit(rep) == rep # Raised /\ \E i \in 1..Len(rep) : rep[i] \in Digits
FirstDigit(rep) ==
  rep[CHOOSE i \in 1..Len(rep) :
        rep[i] \in Digits /\ \A j \in 1..(i - 1) : rep[j] \notin Digits]

\* C11: classify_keyword never raises to its caller, and whenever the
\* backend raised, answered with an empty text or with a text without any of
\* 1, 2, 3, the type returned is skip.
C11_UnusableAnswerIsSkip ==
  clpc = "classified" =>
    /\ classification \in {"review", "info", "skip"}
    /\ ~HasDigit(reply) => classification = "skip"

C11_Witness ==
  /\ clpc = "classified"
  /\ reply \in Replies
  /\ Len(reply) = MaxReplyLen
  /\ ~HasDigit(reply)
  /\ classification = "skip"

\* C12: when the backend answers, the type returned is review, info or skip
\* according to the first of the characters 1, 2, 3 in the answer.
C12_FirstDigitDecides ==
  (clpc = "classified" /\ HasDigit(reply)) =>
    classification = (CASE FirstDigit(reply) = "1" -> "review"
                        [] FirstDigit(reply) = "2" -> "info"
                        [] OTHER -> "skip")

Handled(k) == k \in 1..Len(kresults)
Failure(k) == Handled(k) /\ intents[k] # "skip" /\ ~kresults[k]
Posted(k) == Handled(k) /\ kresults[k]
Work == {"search", "generate", "publish"}

\* C13: for a keyword classified as skip neither the product search, the
\* content generation nor the publishing is invoked; it is recorded as not
\* successful and stays in the keyword file.
C13_SkipNeverPosts ==
  \A k \in 1..Len(intents) :
    intents[k] = "skip" =>
      /\ \A op \in Work : <<k, op>> \notin invoked
      /\ Handled(k) /\ ~kresults[k]
      /\ k \in remaining

C13_Witness ==
  /\ kpc = "done"
  /\ \E k \in 1..Len(intents) : intents[k] = "skip"
  /\ \E k \in 1..Len(intents) : Posted(k)

\* C14: once two keywords in a row have failed, no later keyword is
\* classified, searched, generated or published; the loop is left early only
\* at a failure whose nearest earlier non-skipped keyword failed as well, so a
\* failure that follows a posted keyword lets the run go on.
C14_TwoFailuresHalt ==
  /\ \A k \in 1..Len(kresults) :
       (Failure(k) /\ Failure(k + 1)) =>
         /\ kpc = "done"
         /\ Len(intents) = k + 1
         /\ \A j \in (k + 2)..nKeywords : \A op \in Work \cup {"classify"} :
              <<j, op>> \notin invoked
  /\ halted =>
       LET m == Len(kresults)
       IN  /\ Failure(m)
           /\ \E j \in 1..(m - 1) :
                Failure(j) /\ \A i \in (j + 1)..(m - 1) : intents[i] = "skip"
  /\ \A k \in 1..Len(kresults) :
       (Failure(k) /\ Posted(k + 1) /\ Failure(k + 2) /\ Len(kresults) = k + 2) =>
         /\ ~halted
         /\ k + 2 < NumToProcess => kpc \in {"classify", "process"} /\ kidx = k + 3

C14_Witness ==
  /\ halted
  /\ kpc = "done"
  /\ NumToProcess = 4
  /\ Len(intents) = 3
  /\ Posted(1) /\ Failure(2) /\ Failure(3)
  /\ \A op \in Work \cup {"classify"} : <<4, op>> \notin invoked

(* ===================== claims on the Cerebras client =================== *)
\* keys 0..k-1 answer with an auth or rate-limit error, key k goes through
Scenario(k) ==
  /\ k \in KeyIndexes
  /\ keyBehav[k] = "ok"
  /\ \A i \in 0..(k - 1) : keyBehav[i] = "auth"

\* the first generate call on a client is over
FirstCallOver(t) ==
  /\ instances >= 1
  /\ cCalls = 1
  /\ cpc[t] \in {"returned", "raised"}

\* C15: with n keys of which the first k (k < n) answer with an auth or
\* rate-limit error and the next one goes through, one generate call returns
\* the text of that key, leaves it the current key with its index in the
\* cache, and has recorded exactly the k keys as failed; what the call
\* recorded is still recorded.
C15_RotatesToFirstWorkingKey ==
  \A t \in cthreads : \A k \in KeyIndexes :
    (FirstCallOver(t) /\ Scenario(k)) =>
      /\ cpc[t] = "returned"
      /\ reqKey[t] = k
      /\ key_index = k
      /\ real_client = k
      /\ cache = CachedIndex(k)
      /\ failed_keys = 0..(k - 1)
      /\ failedInCall[t] \subseteq failed_keys

\* C16: a client constructed while the cache file holds a valid key index
\* starts with that key as its current key.
C16_ResumesFromCachedIndex ==
  (instances >= 1 /\ cCalls = 0 /\ cachedAtInit.kind = "index") =>
    /\ key_index = cachedAtInit.k
    /\ real_client = cachedAtInit.k

\* C17: generate never hands back an empty text: a response without choices
\* or without content ends the call with an error.
C17_EmptyResponseIsAnError ==
  \A t \in cthreads : cpc[t] = "returned" => cOut[t] # <<>>

(* ============== claims on the acceptance of a primary text ============= *)
ReturnedPrimary(t) == rpc[t] = "returned" /\ via[t] = "primary"

\* C21: a request that returns a primary text has called rotate_context
\* exactly once, no other request has called it, and a rotation that failed
\* leaves the primary's text as the text returned and the flag set.
C21_OneRotationAfterPrimarySuccess ==
  \A t \in callers :
    /\ nRot[t] = (IF ReturnedPrimary(t) THEN 1 ELSE 0)
    /\ (rotOut[t] # "none") <=> (nRot[t] = 1)
    /\ rotOut[t] = "failed" =>
         /\ ReturnedPrimary(t)
         /\ response[t] = primOut[t]
         /\ response[t] \in Texts
         /\ chat_zai_healthy

C21_Witness ==
  \E t \in callers :
    /\ ReturnedPrimary(t)
    /\ rotOut[t] = "failed"
    /\ response[t] = <<"a">>
    /\ stats.chat_zai_success = 2

\* C22: a primary text that is empty or only whitespace is a failure of the
\* primary: the flag is cleared, the secondary is asked, and that text is
\* never accepted or returned.
C22_BlankPrimaryIsAFailure ==
  \A t \in callers :
    (primOut[t] \in Texts /\ Strip(primOut[t]) = <<>>) =>
      /\ PastPrimary(t)
      /\ rpc[t] = "cerebras" => ~chat_zai_healthy
      /\ via[t] # "primary"

(* ================= claims on the order of the waves ==================== *)
\* the collector has filed what task i produced in the local dicts; a review
\* stays in reviews_map until the update with another batch's result, which
\* has a review under the same key, replaces it
Stored(i) ==
  IF tasks[i].name = "review_batch"
    THEN \A k \in DOMAIN frame[i].res.map :
           /\ k \in DOMAIN reviews_map
           /\ \E j \in ReviewTasks :
                /\ j \in processed
                /\ k \in DOMAIN frame[j].res.map
                /\ reviews_map[k] = frame[j].res.map[k]
    ELSE tasks[i].name \in DOMAIN results /\ results[tasks[i].name] = frame[i].res

\* the attempts a retry loop has made so far came one after the other: each
\* is numbered, and all but the latest ended in an exception
OneAttemptAtATime(fr) ==
  /\ fr.attempt = Len(fr.hist)
  /\ fr.attempt <= max_retries
  /\ \A k \in 1..(Len(fr.hist) - 1) : fr.hist[k] = "raise"

RECURSIVE IntegersIn(_, _)
IntegersIn(text, cur) ==
  LET done == IF cur = <<>> THEN <<>> ELSE <<IntOf(cur, 0)>>
  IN  IF text = <<>> THEN done
      ELSE IF IsDigit(Head(text)) THEN IntegersIn(Tail(text), Append(cur, Head(text)))
      ELSE done \o IntegersIn(Tail(text), <<>>)

RECURSIVE FirstKnownId(_, _)
FirstKnownId(ints, ids) ==
  IF ints = <<>> THEN 0
  ELSE IF Head(ints) \in ids THEN Head(ints)
  ELSE FirstKnownId(Tail(ints), ids)

\* C24: select_category returns the first integer of the backend's reply
\* that is the id of one of the categories, and 0 when there are no
\* categories, when no integer of the reply is an id, or when the call fails.
C24_FirstKnownIdIsSelected ==
  (callee = "select_category" /\ fpc = "returned") =>
    result = (IF DOMAIN args.categories = {} \/ args.reply = Raised THEN 0
              ELSE FirstKnownId(IntegersIn(args.reply, <<>>), DOMAIN args.categories))

(* ====================== claims on _extract_json ======================== *)
HasBothOpeners(text) == Find(text, "{") # -1 /\ Find(text, "[") # -1

\* the opener that comes first in a text that has both, and its closer
EarliestOpener(text) == IF Find(text, "[") < Find(text, "{") THEN "[" ELSE "{"
CloserOf(c) == IF c = "[" THEN "]" ELSE "}"
OpensAt(text) == Find(text, EarliestOpener(text)) + 1
ClosesAt(text) == RFind(text, CloserOf(EarliestOpener(text))) + 1

IntroReturned == callee = "generate_intro" /\ fpc = "returned" /\ result # Raised

\* C26: generate_intro hands back only an intro of at least 40 words: with
\* fewer words after cleaning the attempt fails (and is retried), so
\* generate_all_content_parallel never returns a shorter intro.
C26_IntroHasFortyWords ==
  IntroReturned => Len(SplitWords(result, <<>>)) >= 40

\* where the keyword occurs in a text, whatever the case of the letters
Occurrences(text, keyword) ==
  {k \in 1..(Len(text) - Len(keyword) + 1) :
     Lower(SubSeq(text, k, k + Len(keyword) - 1)) = Lower(keyword)}

Bolded(text, k, n) ==
  /\ k >= 3
  /\ k + n + 1 <= Len(text)
  /\ SubSeq(text, k - 2, k - 1) = <<"*", "*">>
  /\ SubSeq(text, k + n, k + n + 1) = <<"*", "*">>

\* C27: in the intro generate_intro returns, every occurrence of the keyword
\* (in any casing) stands between ** markers.
C27_KeywordIsBolded ==
  IntroReturned =>
    \A k \in Occurrences(result, args.keyword) : Bolded(result, k, Len(args.keyword))

(* ====================== claims on generate_badges ====================== *)
\* an object with both keys, badges being an array
WellShaped(data) ==
  /\ data.kind = "object"
  /\ {"top_recommendation", "badges"} \subseteq DOMAIN data.fields
  /\ data.fields["badges"].kind = "array"

\* C28: an attempt of generate_badges accepts the decoded payload exactly
\* when it is an object with the keys top_recommendation and badges, badges
\* being an array; nothing else about the payload rejects it.
C28_AcceptedIffWellShaped ==
  (callee = "generate_badges" /\ fpc = "returned") =>
    ((result = "ok") <=> WellShaped(args.data))

(* ======================= claims on _clean_intro ======================== *)
\* C29: the prose-cleaner is idempotent: cleaning what it returned returns
\* the same text.
C29_CleanIntroIsIdempotent ==
  (callee = "_clean_intro" /\ fpc = "again") => result = args.text

(* ====================== claims on build_full_post ====================== *)
Position(html, name) ==
  IF \E k \in 1..Len(html) : html[k].section = name
    THEN CHOOSE k \in 1..Len(html) : html[k].section = name
    ELSE 0

\* C30: build_full_post called with a takeaways list returns HTML that has a
\* Key Takeaways section holding the takeaways, after the intro and before
\* the Editor's Choice section.
C30_TakeawaysSectionInPlace ==
  (callee = "build_full_post" /\ fpc = "returned" /\ "takeaways" \in args.kwargs) =>
    /\ result # Raised
    /\ Position(result, "Key Takeaways") > 0
    /\ result[Position(result, "Key Takeaways")].body = args.values.takeaways
    /\ Position(result, "intro") < Position(result, "Key Takeaways")
    /\ Position(result, "Key Takeaways") < Position(result, "Editor's Choice")

(* ============ claims on the delay between two completions ============== *)
\* C31: in the parallel batch no queued task begins running while the
\* collector's wait after a completion (time.sleep(1)) is still in progress.
C31_NoStartDuringDelay ==
  [][bpc = "sleep" =>
       \A i \in 1..N : ~(frame[i].st = "queued" /\ frame'[i].st = "running")]_vars

(* ================ claims on the keys of CerebrasClient ================= *)
\* C32: under any interleaving of concurrent generate calls on one client, a
\* key index is added to failed_keys only by the handling of an auth or
\* rate-limit error of a request that was sent with that key.
C32_OnlyKeysThatFailedAreMarked ==
  [][\A k \in failed_keys' \ failed_keys :
       \E t \in cthreads :
         /\ cpc[t] = "sent" /\ cpc'[t] # "sent"
         /\ reqKey[t] = k
         /\ keyBehav[k] = "auth"]_vars

\* C33: across any sequence of generate calls no request is sent with a key
\* whose index is in failed_keys, also not by a call that follows one that
\* ended with all keys exhausted.
C33_NoRequestWithFailedKey ==
  [][\A t \in cthreads :
       (cpc[t] # "sent" /\ cpc'[t] = "sent") => reqKey'[t] \notin failed_keys]_vars

\* C36: a client constructed from a key file with at least one key (also
\* with exactly one) has its API client initialised with one of the keys,
\* and its first generate call sends a request to the backend.
C36_ConstructedClientHasAKey ==
  instances >= 1 =>
    /\ real_client \in KeyIndexes
    /\ \A t \in cthreads : FirstCallOver(t) => nReq[t] >= 1

\* a generate call is in progress, resp. over
InGenerate(t) == cpc[t] \in {"loop", "sent", "backoff"}
GenerateOver(t) == cpc[t] \in {"returned", "raised"}

\* C37: with a single caller, a generate call sends at most len(api_keys)
\* requests, its loop never runs into the cap of 2 * len(api_keys) attempts,
\* and the call ends, by returning a text or by raising.
C37_CallEndsWithinTheKeys ==
  /\ [](\A t \in cthreads :
          /\ nReq[t] <= nKeys
          /\ InGenerate(t) => attempts[t] < 2 * nKeys)
  /\ \A t \in {1} : InGenerate(t) ~> GenerateOver(t)

C37_Witness ==
  \E t \in cthreads :
    /\ nKeys >= 2
    /\ GenerateOver(t)
    /\ nReq[t] = nKeys
    /\ attempts[t] = nKeys - 1

(* ================= claims on the primary-healthy flag ================== *)
NotInGenerate(t) == rpc[t] \in {"idle", "returned", "raised"}

\* C34: the flag goes from false to true only by the health probe that
\* follows a successful secondary call and finds the primary healthy; a
\* request that begins while the flag is false goes to the secondary without
\* trying the primary. So the flag stays false while secondary calls fail.
C34_FlagRisesOnlyByProbe ==
  [][/\ (~chat_zai_healthy /\ chat_zai_healthy') =>
          \E t \in callers :
            /\ rpc[t] = "probe" /\ rpc'[t] = "returned"
            /\ secOut[t] = "text"
            /\ probed'[t] = {TRUE}
     /\ \A t \in callers :
          (~chat_zai_healthy /\ NotInGenerate(t) /\ rpc'[t] # rpc[t]) =>
            /\ rpc'[t] = "cerebras"
            /\ nPrim'[t] = 0
            /\ ~chat_zai_healthy']_vars

\* the flag is back after a failed and then a successful secondary call
C34_Witness ==
  \E t \in callers :
    /\ rpc[t] = "returned" /\ via[t] = "secondary"
    /\ ~entryHealthy[t]
    /\ nPrim[t] = 0
    /\ stats.cerebras_failed >= 1
    /\ chat_zai_healthy

(* ============== claims on the rotation of the context ================== *)
\* C38: the router sends no context rotation to the primary while the
\* generation request of another task to the primary is still in flight.
C38_NoRotationDuringARequest ==
  [][\A t \in callers :
       (rpc[t] = "rotate" /\ nRot'[t] = nRot[t] + 1) =>
         \A u \in callers \ {t} : rpc[u] # "zai"]_vars

(* ============ claims on skipped keywords and the counter =============== *)
\* keywords j < k failed with nothing but skipped keywords between them
FailedAroundSkips(j, k) ==
  /\ j < k
  /\ Failure(j) /\ Failure(k)
  /\ \A m \in (j + 1)..(k - 1) : intents[m] = "skip"

\* C39: in process_keywords_file the step that classifies a keyword as skip
\* leaves consecutive_failures as it was, and two failed keywords with only
\* skipped keywords between them halt the run at the second.
C39_SkipLeavesTheCounter ==
  /\ [][(kpc = "classify" /\ intent' = "skip" /\ Len(intents') = Len(intents) + 1) =>
          consecutive_failures' = consecutive_failures]_vars
  /\ [](\A j \in 1..Len(kresults) : \A k \in 1..Len(kresults) :
          FailedAroundSkips(j, k) =>
            /\ halted
            /\ kpc = "done"
            /\ k = Len(kresults)
            /\ consecutive_failures = 2)

\* a run halted by two failures with a skipped keyword between them
C39_Witness ==
  /\ halted
  /\ \E j \in 1..Len(kresults) : \E k \in 1..Len(kresults) :
       FailedAroundSkips(j, k) /\ k > j + 1

(* ================= claims on the counters of the router ================ *)
\* C35: whenever no generate call is in progress, total_requests is the sum
\* of chat_zai_success, cerebras_success and cerebras_failed, and
\* chat_zai_failed is at most cerebras_success + cerebras_failed, also after
\* generate calls that ran at the same time.
C35_CountersAddUp ==
  (\A t \in callers : ~InCall(t)) =>
    /\ stats.total_requests =
         stats.chat_zai_success + stats.cerebras_success + stats.cerebras_failed
    /\ stats.chat_zai_failed <= stats.cerebras_success + stats.cerebras_failed
====
